---- MODULE Spec2Model ----
(***************************************************************************)
(* NextRide: ingestion of GTFS-Realtime feeds into PostgreSQL and the      *)
(* queries the bot runs on the stored state.                               *)
(*                                                                         *)
(* A table is a sequence of rows in insertion order (the order of the      *)
(* SERIAL id where the table has one).  Every call of                      *)
(* Database.execute_sql_query is one transaction: it commits after the     *)
(* statement (or after the whole executemany batch) and rolls back on a    *)
(* DatabaseError, so one statement is one atomic step and nothing larger   *)
(* is.                                                                     *)
(***************************************************************************)
EXTENDS Integers, Sequences, FiniteSets, TLC

VARIABLES
    trips_real_time,    \* table trips_real_time
    stop_time_update,   \* table stop_time_update
    rt_pc,              \* position of upload_real_time_feed_to_postgres.py
    rt_group,           \* index of the feed group the fetch loop is at
    feed_list,          \* feeds fetched so far in this cycle
    trip_updates,       \* decoded trip updates of this cycle
    stop_time_updates,  \* decoded stop-time updates of this cycle
    rt_cycle,           \* number of cycles the scheduler has started
    rt_prior,           \* history: live state when the last reconciliation began
    departures,         \* what the last departure query returned
    alerts,             \* table alerts
    active_periods,     \* table active_periods
    informed_entities,  \* table informed_entities
    subscriptions,      \* table subscriptions
    al_pc,              \* position of upload_alerts_feed_to_postgres.py
    al_alerts,          \* decoded alerts of this run
    al_i,               \* index of the alert the for loop is at
    existing_alert,     \* result of the SELECT on alerts
    al_count,           \* number of runs the scheduler has started
    al_cycle,           \* the number of the run each process is in
    al_prior,           \* history: the alert tables when the last run began
    user_alerts,        \* what the last fetch_user_alerts returned
    users,              \* table users
    users_user_id_seq,  \* sequence of users.user_id
    subscriptions_subscription_id_seq,  \* sequence of subscriptions.subscription_id
    bot_proc,           \* the bot process each handler runs in
    bot_pc,             \* position of each handler
    bot_local,          \* arguments and local variables of each handler
    bot_count           \* number of commands dispatched

rt_vars == <<trips_real_time, stop_time_update, rt_pc, rt_group, feed_list,
             trip_updates, stop_time_updates, rt_cycle, rt_prior, departures>>

al_vars == <<alerts, active_periods, informed_entities, al_pc, al_alerts,
             al_i, existing_alert, al_count, al_cycle, al_prior, user_alerts>>

bot_vars == <<users, users_user_id_seq, subscriptions_subscription_id_seq,
              bot_proc, bot_pc, bot_local, bot_count>>

vars == <<rt_vars, al_vars, subscriptions, bot_vars>>

-----------------------------------------------------------------------------
(* Bounds and domains *)

\* Cycles the external scheduler starts.
MaxCycles == 2

\* Commands the users of the bot submit.
MaxCommands == 3

\* send_alerts: a message longer than MessageLimit characters is sent in
\* pieces of ChunkSize characters.
MessageLimit == 4000
ChunkSize == 2000

\* Timestamps are seconds on the clock NOW() reads; NULL is SQL NULL / None.
NULL == 0 - 1
\* The values of NOW() the queries run at.
QueryTimes == {0, 2}

StopIds == {"s1", "s2"}

\* The static table stops (loaded by upload_static_data_to_postgres.py).
stops == {"s1", "s2"}

\* The feed groups of the realtime script, in the order of the dict.
urls == <<"NQRW", "ACE">>

-----------------------------------------------------------------------------
(* Feed messages (gtfs_realtime_pb2.FeedMessage) *)

\* A protobuf string or sub-message that is absent reads as its default;
\* presence is what HasField reports.
Absent == <<>>

StopTime(stop, has_arr, arr, has_dep, dep) ==
    [stop_id |-> stop, has_arrival |-> has_arr, arrival |-> arr,
     has_departure |-> has_dep, departure |-> dep]

\* A feed entity carrying a trip_update.  start_date is <<>> (the empty
\* string) or <<y, m, d>>; start_time is <<>> or <<h, m, s>>.
TripEntity(tid, date, time, route, stus) ==
    [has_trip_update |-> TRUE, has_alert |-> FALSE, id |-> tid,
     trip |-> [trip_id |-> tid, start_date |-> date, start_time |-> time,
               route_id |-> route],
     stop_time_update |-> stus,
     header_text |-> <<>>, description_text |-> <<>>,
     active_period |-> <<>>, informed_entity |-> <<>>]

Date1 == <<2024, 11, 5>>
Time8 == <<8, 0, 0>>
\* GTFS service-day rollover: a start time past 24:00:00.
Time25 == <<25, 10, 0>>

\* The entities the realtime feeds are built from.
E_t1A == TripEntity("t1", Date1, Time8, "A",
            <<StopTime("s1", TRUE, 1, TRUE, 2)>>)
\* the same trip again, on another route, with stop s1 listed twice
E_t1B == TripEntity("t1", Date1, Absent, "B",
            <<StopTime("s1", FALSE, 0, TRUE, 3),
              StopTime("s1", TRUE, 2, TRUE, 1)>>)
E_t2A == TripEntity("t2", Absent, Time8, "A",
            <<StopTime("s1", TRUE, 2, TRUE, 3),
              StopTime("s2", TRUE, 3, FALSE, 0)>>)
E_t2B == TripEntity("t2", Date1, Time8, "B",
            <<StopTime("s2", FALSE, 0, TRUE, 2),
              StopTime("s2", TRUE, 2, TRUE, 3)>>)

\* a trip that starts after midnight of its service day: "25:10:00" is not
\* a time of day
E_t3 == TripEntity("t3", Date1, Time25, "A",
            <<StopTime("s2", TRUE, 1, TRUE, 3)>>)

NoTrip == [trip_id |-> "", start_date |-> <<>>, start_time |-> <<>>,
           route_id |-> ""]

Period(has_s, s, has_e, e) ==
    [has_start |-> has_s, start |-> s, has_end |-> has_e, end |-> e]

Informed(has_a, a, has_r, r, has_s, s) ==
    [has_agency_id |-> has_a, agency_id |-> a, has_route_id |-> has_r,
     route_id |-> r, has_stop_id |-> has_s, stop_id |-> s]

\* A feed entity carrying an alert: header and description are the lists
\* of translations.
AlertEntity(aid, header, description, periods, informed) ==
    [has_trip_update |-> FALSE, has_alert |-> TRUE, id |-> aid,
     trip |-> NoTrip, stop_time_update |-> <<>>,
     header_text |-> header, description_text |-> description,
     active_period |-> periods, informed_entity |-> informed]

AlertIds == {"a1", "a2"}

\* The entities the alert feeds are built from: a1 in two versions (the
\* second without translations and without periods), and a2.
E_a1v1 == AlertEntity("a1", <<"delays", "retrasos">>, <<"signal">>,
            <<Period(TRUE, 1, TRUE, 3)>>,
            <<Informed(TRUE, "MTA", TRUE, "A", FALSE, "")>>)
E_a1v2 == AlertEntity("a1", <<>>, <<"track">>,
            <<>>,
            <<Informed(FALSE, "", FALSE, "", TRUE, "s1"),
              Informed(FALSE, "", TRUE, "B", TRUE, "s1")>>)
E_a2 == AlertEntity("a2", <<"planned">>, <<>>,
            <<Period(TRUE, 3, FALSE, 0), Period(FALSE, 0, TRUE, 1)>>,
            <<Informed(FALSE, "", TRUE, "A", FALSE, ""),
              Informed(FALSE, "", TRUE, "B", TRUE, "s1")>>)

\* A fetched FeedMessage, and the None a failed fetch returns.
Feed(ents) == [is_none |-> FALSE, entity |-> ents]
NoneFeed == [is_none |-> TRUE, entity |-> <<>>]

\* The feeds one realtime endpoint may answer with.
RealtimeFeeds ==
    { Feed(<<>>),
      Feed(<<E_t1A>>),
      Feed(<<E_t2B, E_t3, E_t1A>>),
      Feed(<<E_t1B, E_t2A>>) }

\* The feeds the alerts endpoint may answer with.
AlertFeeds ==
    { Feed(<<>>),
      Feed(<<E_a1v1>>),
      Feed(<<E_a2, E_a1v2>>),
      Feed(<<E_a1v1, E_a1v2>>) }

-----------------------------------------------------------------------------
(* utils/helpers.py: process_gtfs_feed_data *)

\* calendar: whether the year has a 29th of February.
IsLeap(year) ==
    /\ year % 4 = 0
    /\ year % 100 # 0 \/ year % 400 = 0

\* calendar: the number of days of a month of a year.
DaysInMonth(year, month) ==
    IF month = 2 THEN (IF IsLeap(year) THEN 29 ELSE 28)
    ELSE IF month \in {4, 6, 9, 11} THEN 30
    ELSE 31

\* datetime.strptime(f"{start_date} {start_time}", '%Y%m%d %H:%M:%S'):
\* the datetime, or ValueError when a component is out of range: a year
\* outside 1..9999, a month outside 1..12, a day the month does not have,
\* an hour after 23, a minute or a second after 59.
StrptimeRaises(date, time) ==
    \/ date[1] < 1 \/ date[1] > 9999
    \/ date[2] < 1 \/ date[2] > 12
    \/ date[3] < 1
    \/ date[2] \in 1..12 /\ date[3] > DaysInMonth(date[1], date[2])
    \/ time[1] < 0 \/ time[1] > 23
    \/ time[2] < 0 \/ time[2] > 59
    \/ time[3] < 0 \/ time[3] > 59

Strptime(date, time) == <<date, time>>

\* datetime.fromtimestamp(epoch): datetimes are kept as seconds on the
\* clock NOW() reads.
FromTimestamp(epoch) == epoch

\* datetime.fromtimestamp raises (ValueError, OverflowError or OSError)
\* for an epoch it cannot hold: with the clock on UTC, one before
\* -62135510400 (the second day of year 1) or from 253402300800 (year
\* 10000) on.  Both are multiples of 800, and the quotients are compared.
FromTimestampRaises(epoch) ==
    \/ epoch \div 800 < 0 - 77669388
    \/ epoch \div 800 >= 316752876

\* Mutant: the start is built as soon as one of the two parts is there.
TripUpdateRowAnyPart(e) ==
    [trip_id |-> e.trip.trip_id,
     start_datetime |->
        IF e.trip.start_time # <<>> \/ e.trip.start_date # <<>>
        THEN Strptime(e.trip.start_date, e.trip.start_time)
        ELSE <<>>,
     route_id |-> e.trip.route_id]

\* (trip_id, start_datetime, route_id) of a trip-update entity.
TripUpdateRow(e) ==
    [trip_id |-> e.trip.trip_id,
     start_datetime |->
        IF e.trip.start_time # <<>> /\ e.trip.start_date # <<>>
        THEN Strptime(e.trip.start_date, e.trip.start_time)
        ELSE <<>>,
     route_id |-> e.trip.route_id]

\* (trip_id, stop_id, arrival_time, departure_time) of one stop_time_update.
StopTimeRow(tid, st) ==
    [trip_id |-> tid, stop_id |-> st.stop_id,
     arrival_time |-> IF st.has_arrival THEN FromTimestamp(st.arrival) ELSE NULL,
     departure_time |-> IF st.has_departure THEN FromTimestamp(st.departure) ELSE NULL]

\* Whether the conversion of a stop_time_update raises.
StopTimeRaises(st) ==
    \/ st.has_arrival /\ FromTimestampRaises(st.arrival)
    \/ st.has_departure /\ FromTimestampRaises(st.departure)

\* The number of stop_time_updates of the entity that are decoded: those
\* before the first one whose conversion raises.
StopTimesDecoded(e) ==
    LET Bad == { i \in 1..Len(e.stop_time_update) :
                   StopTimeRaises(e.stop_time_update[i]) }
    IN IF Bad = {} THEN Len(e.stop_time_update)
       ELSE (CHOOSE i \in Bad : \A j \in Bad : i <= j) - 1

\* The stop rows appended for the entity.
StopTimeRows(e) ==
    [i \in 1..StopTimesDecoded(e) |->
        StopTimeRow(e.trip.trip_id, e.stop_time_update[i])]

\* Whether strptime raises for the trip of the entity, before its trip
\* row is appended.
TripRaises(e) ==
    /\ e.has_trip_update
    /\ e.trip.start_time # <<>> /\ e.trip.start_date # <<>>
    /\ StrptimeRaises(e.trip.start_date, e.trip.start_time)

\* Whether the trip_update part of the entity raises: at strptime, or at
\* the conversion of a stop time, after the trip row has been appended.
TripUpdateRaises(e) ==
    /\ e.has_trip_update
    /\ TripRaises(e) \/ StopTimesDecoded(e) < Len(e.stop_time_update)

\* Whether the alert part of the entity raises: at the conversion of a
\* bound of an active period, before the alert is appended.
AlertRaises(e) ==
    /\ e.has_alert
    /\ \E i \in 1..Len(e.active_period) :
          \/ e.active_period[i].has_start
                /\ FromTimestampRaises(e.active_period[i].start)
          \/ e.active_period[i].has_end
                /\ FromTimestampRaises(e.active_period[i].end)

\* An entity whose decoding raises inside the try block.
EntityRaises(e) == TripUpdateRaises(e) \/ AlertRaises(e)

\* The alert record of an alert entity.
AlertRecord(e) ==
    [alert_id |-> e.id,
     header_text |-> IF e.header_text # <<>> THEN e.header_text[1] ELSE "NULL",
     description_text |->
        IF e.description_text # <<>> THEN e.description_text[1] ELSE "NULL",
     active_periods |->
        [i \in 1..Len(e.active_period) |->
            <<IF e.active_period[i].has_start
                THEN FromTimestamp(e.active_period[i].start) ELSE NULL,
              IF e.active_period[i].has_end
                THEN FromTimestamp(e.active_period[i].end) ELSE NULL>>],
     informed_entities |->
        [i \in 1..Len(e.informed_entity) |->
            <<IF e.informed_entity[i].has_agency_id
                THEN e.informed_entity[i].agency_id ELSE "NULL",
              IF e.informed_entity[i].has_route_id
                THEN e.informed_entity[i].route_id ELSE "NULL",
              IF e.informed_entity[i].has_stop_id
                THEN e.informed_entity[i].stop_id ELSE "NULL">>]]

\* The three output lists, extended by what is decoded of one entity
\* until it raises, if it does.
DecodeEntity(out, e) ==
    [trip_updates |->
        IF e.has_trip_update /\ ~TripRaises(e)
        THEN Append(out.trip_updates, TripUpdateRow(e)) ELSE out.trip_updates,
     stop_time_updates |->
        IF e.has_trip_update /\ ~TripRaises(e)
        THEN out.stop_time_updates \o StopTimeRows(e) ELSE out.stop_time_updates,
     alerts |->
        IF e.has_alert /\ ~EntityRaises(e)
        THEN Append(out.alerts, AlertRecord(e)) ELSE out.alerts,
     raised |-> EntityRaises(e)]

\* The inner loop, over the entities of one feed.  An exception leaves the
\* lists as they are at that point and ends the loop.
RECURSIVE DecodeEntities(_, _)
DecodeEntities(out, ents) ==
    IF ents = <<>> \/ out.raised THEN out
    ELSE DecodeEntities(DecodeEntity(out, Head(ents)), Tail(ents))

\* The outer loop, over the feeds.  The try encloses both loops, so an
\* exception ends the decoding of every feed that follows; a feed that is
\* None raises AttributeError at feed.entity.
RECURSIVE DecodeFeeds(_, _)
DecodeFeeds(out, feeds) ==
    IF feeds = <<>> \/ out.raised THEN out
    ELSE IF Head(feeds).is_none THEN [out EXCEPT !.raised = TRUE]
    ELSE DecodeFeeds(DecodeEntities(out, Head(feeds).entity), Tail(feeds))

process_gtfs_feed_data(feeds) ==
    DecodeFeeds([trip_updates |-> <<>>, stop_time_updates |-> <<>>,
                 alerts |-> <<>>, raised |-> FALSE], feeds)

-----------------------------------------------------------------------------
(* utils/db.py and the schema of create_schema.py *)

\* Mutant: a schema without the key.
UniqueKeyNone(table_name) == {}

\* The columns of a table's PRIMARY KEY or UNIQUE constraint that an insert
\* supplies.  A SERIAL id is never supplied, so it never conflicts.
UniqueKey(table_name) ==
    CASE table_name = "trips_real_time" -> {"trip_id"}
      [] table_name = "stop_time_update" -> {}
      [] table_name = "alerts" -> {"alert_id"}
      [] table_name = "active_periods" -> {}
      [] table_name = "informed_entities" -> {}
      [] table_name = "users" -> {"username"}
      [] table_name = "subscriptions" -> {}

\* Whether `row` breaks the unique constraint of the table.
Conflicts(table, key, row) ==
    /\ key # {}
    /\ \E i \in 1..Len(table) : \A c \in key : table[i][c] = row[c]

\* Mutant: a plain INSERT, without the conflict clause taking effect.
insert_data_plain(table, table_name, values) == table \o values

\* Database.insert_data: executemany of INSERT ... ON CONFLICT DO NOTHING,
\* row by row in one transaction; a row that conflicts with a stored row,
\* or with a row this batch has just inserted, is skipped.
RECURSIVE insert_data(_, _, _)
insert_data(table, table_name, values) ==
    IF values = <<>> THEN table
    ELSE insert_data(
            IF Conflicts(table, UniqueKey(table_name), Head(values))
            THEN table ELSE Append(table, Head(values)),
            table_name, Tail(values))

\* Mutant: the DELETE is not issued.
delete_nothing(table) == table

\* Database.delete_records without conditions: DELETE FROM table.
delete_all(table) == <<>>

\* Mutant: the WHERE clause is lost and every row goes.
delete_where_any(table, alert_id) == <<>>

\* Database.delete_records with the condition alert_id = %(alert_id)s.
delete_where_alert_id(table, alert_id) ==
    LET Keep(r) == r.alert_id # alert_id IN SelectSeq(table, Keep)

-----------------------------------------------------------------------------
(* utils/bot_queries.py: the departure queries *)

\* Mutant: the comparison with NOW() is not strict.
JoinedDeparturesNotBefore(trips, stus, station_id, now) ==
    { <<i, j>> \in (1..Len(trips)) \X (1..Len(stus)) :
        /\ trips[i].trip_id = stus[j].trip_id
        /\ stus[j].stop_id \in stops
        /\ stus[j].stop_id = station_id
        /\ stus[j].departure_time # NULL
        /\ stus[j].departure_time >= now }

\* The rows of trips_real_time JOIN stop_time_update JOIN stops that the
\* WHERE clause of both queries keeps: the stop asked for, a departure
\* strictly after NOW().  A NULL departure_time compares as unknown.
JoinedDepartures(trips, stus, station_id, now) ==
    { <<i, j>> \in (1..Len(trips)) \X (1..Len(stus)) :
        /\ trips[i].trip_id = stus[j].trip_id
        /\ stus[j].stop_id \in stops
        /\ stus[j].stop_id = station_id
        /\ stus[j].departure_time # NULL
        /\ stus[j].departure_time > now }

\* ROUND(EXTRACT(EPOCH FROM (departure_time - NOW())) / 60), for a
\* departure after now.
Eta(departure_time, now) == (2 * (departure_time - now) + 60) \div 120

\* Routes in the order of ORDER BY route_id on the model's route ids.
RouteOrder == <<"A", "B">>

\* Mutant: DISTINCT ON keeps the last row of each route.
station_departures_latest(trips, stus, station_id, now) ==
    LET J == JoinedDepartures(trips, stus, station_id, now)
        DepsOf(r) == { stus[p[2]].departure_time : p \in {q \in J : trips[q[1]].route_id = r} }
        Row(r) == LET d == CHOOSE x \in DepsOf(r) : \A y \in DepsOf(r) : x >= y
                  IN [route_id |-> r, departure_time |-> d, eta |-> Eta(d, now)]
        Served(i) == DepsOf(RouteOrder[i]) # {}
        RowAt(i) == Row(RouteOrder[i])
        idx == SelectSeq([i \in 1..Len(RouteOrder) |-> i], Served)
    IN [k \in 1..Len(idx) |-> RowAt(idx[k])]

\* get_station_departures: DISTINCT ON (route_id) ... ORDER BY route_id,
\* departure_time: for each route the row with the earliest departure.
station_departures(trips, stus, station_id, now) ==
    LET J == JoinedDepartures(trips, stus, station_id, now)
        DepsOf(r) == { stus[p[2]].departure_time : p \in {q \in J : trips[q[1]].route_id = r} }
        Row(r) == LET d == CHOOSE x \in DepsOf(r) : \A y \in DepsOf(r) : x <= y
                  IN [route_id |-> r, departure_time |-> d, eta |-> Eta(d, now)]
        Served(i) == DepsOf(RouteOrder[i]) # {}
        RowAt(i) == Row(RouteOrder[i])
        idx == SelectSeq([i \in 1..Len(RouteOrder) |-> i], Served)
    IN [k \in 1..Len(idx) |-> RowAt(idx[k])]

\* LIMIT 3
RouteLimit == 3

RouteIds == {"A", "B"}

\* ORDER BY stu.departure_time ASC on a set of joined rows.  Rows with the
\* same departure time come in either order; they yield the same values.
RECURSIVE OrderByDeparture(_, _)
OrderByDeparture(J, stus) ==
    IF J = {} THEN <<>>
    ELSE LET q == CHOOSE x \in J :
                     \A y \in J : stus[x[2]].departure_time
                                      <= stus[y[2]].departure_time
         IN <<q>> \o OrderByDeparture(J \ {q}, stus)

\* Mutant: the LIMIT clause is lost.
route_departures_unlimited(trips, stus, station_id, route_name, now) ==
    LET J == { q \in JoinedDepartures(trips, stus, station_id, now) :
                  trips[q[1]].route_id = route_name }
        ordered == OrderByDeparture(J, stus)
    IN [k \in 1..Len(ordered) |->
           [route_id |-> trips[ordered[k][1]].route_id,
            departure_time |-> stus[ordered[k][2]].departure_time,
            eta |-> Eta(stus[ordered[k][2]].departure_time, now)]]

\* get_route_departures: the joined rows of one route, ORDER BY
\* departure_time ASC LIMIT 3, one row per stop-time update.
route_departures(trips, stus, station_id, route_name, now) ==
    LET J == { q \in JoinedDepartures(trips, stus, station_id, now) :
                  trips[q[1]].route_id = route_name }
        ordered == OrderByDeparture(J, stus)
        n == IF Len(ordered) < RouteLimit THEN Len(ordered) ELSE RouteLimit
    IN [k \in 1..n |->
           [route_id |-> trips[ordered[k][1]].route_id,
            departure_time |-> stus[ordered[k][2]].departure_time,
            eta |-> Eta(stus[ordered[k][2]].departure_time, now)]]

-----------------------------------------------------------------------------
(* mta_data_pipeline/upload_real_time_feed_to_postgres.py *)

\* The scheduler's process slots: a second run of a script may start
\* before the first has ended.
Procs == {1, 2}

LiveState == [trips |-> trips_real_time, stus |-> stop_time_update]

\* The positions at which the live state is being replaced.
Reconciling == {"delete_stu", "insert_trips", "insert_stu"}

\* history: for each process, the cycle whose reconciliation is under way.
ReconcilingNow ==
    [p \in Procs |-> IF rt_pc[p] \in Reconciling THEN rt_cycle[p] ELSE 0]

\* No query answered yet.  `during` is history: ReconcilingNow when the
\* query ran.
NoQuery == [kind |-> "none", stop |-> "", route |-> "", now |-> 0,
            rows |-> <<>>,
            during |-> [p \in Procs |-> 0]]

InitRealtime ==
    /\ trips_real_time = <<>>
    /\ stop_time_update = <<>>
    /\ rt_pc = [p \in Procs |-> "idle"]
    /\ rt_group = [p \in Procs |-> 1]
    /\ feed_list = [p \in Procs |-> <<>>]
    /\ trip_updates = [p \in Procs |-> <<>>]
    /\ stop_time_updates = [p \in Procs |-> <<>>]
    /\ rt_cycle = [p \in Procs |-> 0]
    /\ rt_prior = [trips |-> <<>>, stus |-> <<>>]
    /\ departures = NoQuery

rt_tables == <<trips_real_time, stop_time_update>>
rt_locals == <<rt_group, feed_list, trip_updates, stop_time_updates>>
rt_frame == <<al_vars, subscriptions, bot_vars>>

\* The positions at which no process of the script runs.
Ended == {"idle", "done", "crashed", "aborted"}

\* The scheduler starts the script: a fresh process, feed_list = [].  The
\* second slot is taken only while the first is busy.
StartCycle(p) ==
    /\ rt_pc[p] \in Ended
    /\ p = 1 \/ rt_pc[1] \notin Ended
    /\ rt_cycle[1] + rt_cycle[2] < MaxCycles
    /\ rt_cycle' = [rt_cycle EXCEPT ![p] = @ + 1]
    /\ rt_pc' = [rt_pc EXCEPT ![p] = "fetch"]
    /\ rt_group' = [rt_group EXCEPT ![p] = 1]
    /\ feed_list' = [feed_list EXCEPT ![p] = <<>>]
    /\ trip_updates' = [trip_updates EXCEPT ![p] = <<>>]
    /\ stop_time_updates' = [stop_time_updates EXCEPT ![p] = <<>>]
    /\ UNCHANGED <<rt_tables, rt_prior, departures, rt_frame>>

\* One turn of the fetch loop: the endpoint answers with a feed, which is
\* appended.
FetchOk(p) ==
    /\ rt_pc[p] = "fetch"
    /\ rt_group[p] <= Len(urls)
    /\ \E feed \in RealtimeFeeds :
          feed_list' = [feed_list EXCEPT ![p] = Append(@, feed)]
    /\ rt_group' = [rt_group EXCEPT ![p] = @ + 1]
    /\ UNCHANGED <<rt_tables, rt_pc, trip_updates, stop_time_updates,
                   rt_cycle, rt_prior, departures, rt_frame>>

\* One turn of the fetch loop: requests raises a RequestException (network
\* error, or raise_for_status on a non-2xx answer); the fetch returns None
\* and the group is logged and skipped.
FetchFailed(p) ==
    /\ rt_pc[p] = "fetch"
    /\ rt_group[p] <= Len(urls)
    /\ rt_group' = [rt_group EXCEPT ![p] = @ + 1]
    /\ UNCHANGED <<rt_tables, rt_pc, feed_list, trip_updates,
                   stop_time_updates, rt_cycle, rt_prior, departures, rt_frame>>

\* One turn of the fetch loop: the answer is not a FeedMessage.
\* ParseFromString raises DecodeError, which is not a RequestException:
\* it leaves fetch_gtfs_realtime_data and the script, which catches
\* nothing, ends there.
FetchMalformed(p) ==
    /\ rt_pc[p] = "fetch"
    /\ rt_group[p] <= Len(urls)
    /\ rt_pc' = [rt_pc EXCEPT ![p] = "aborted"]
    /\ UNCHANGED <<rt_tables, rt_locals, rt_cycle, rt_prior, departures, rt_frame>>

\* One turn of the fetch loop: the endpoint accepts the connection and
\* never answers.  requests.get is called without a timeout, so the call
\* does not return.
FetchHangs(p) ==
    /\ rt_pc[p] = "fetch"
    /\ rt_group[p] <= Len(urls)
    /\ rt_pc' = [rt_pc EXCEPT ![p] = "hung"]
    /\ UNCHANGED <<rt_tables, rt_locals, rt_cycle, rt_prior, departures, rt_frame>>

\* After the loop: decode the feeds fetched.
ProcessFeeds(p) ==
    /\ rt_pc[p] = "fetch"
    /\ rt_group[p] > Len(urls)
    /\ LET out == process_gtfs_feed_data(feed_list[p])
       IN /\ trip_updates' = [trip_updates EXCEPT ![p] = out.trip_updates]
          /\ stop_time_updates' =
                [stop_time_updates EXCEPT ![p] = out.stop_time_updates]
    /\ rt_prior' = LiveState
    /\ rt_pc' = [rt_pc EXCEPT ![p] = "delete_trips"]
    /\ UNCHANGED <<rt_tables, rt_group, feed_list, rt_cycle, departures, rt_frame>>

\* A statement fails with a psycopg2.DatabaseError (the connection is
\* lost, say): execute_sql_query rolls the statement back and re-raises,
\* and the script, which catches nothing, ends there.
StorageError(p) ==
    /\ rt_pc[p] \in {"delete_trips", "delete_stu", "insert_trips", "insert_stu"}
    /\ rt_pc' = [rt_pc EXCEPT ![p] = "crashed"]
    /\ UNCHANGED <<rt_tables, rt_locals, rt_cycle, rt_prior, departures, rt_frame>>

\* db.delete_records("trips_real_time")
DeleteTrips(p) ==
    /\ rt_pc[p] = "delete_trips"
    /\ trips_real_time' = delete_all(trips_real_time)
    /\ rt_pc' = [rt_pc EXCEPT ![p] = "delete_stu"]
    /\ UNCHANGED <<stop_time_update, rt_locals, rt_cycle, rt_prior, departures, rt_frame>>

\* Mutant: the table is cleared only when there is something to insert.
DeleteStopTimesIfBatch(p) ==
    /\ rt_pc[p] = "delete_stu"
    /\ stop_time_update' =
          IF stop_time_updates[p] # <<>> THEN <<>> ELSE stop_time_update
    /\ rt_pc' = [rt_pc EXCEPT ![p] = "insert_trips"]
    /\ UNCHANGED <<trips_real_time, rt_locals, rt_cycle, rt_prior, departures, rt_frame>>

\* Mutant: the stop times of the previous cycle are left in place.
DeleteStopTimesSkipped(p) ==
    /\ rt_pc[p] = "delete_stu"
    /\ rt_pc' = [rt_pc EXCEPT ![p] = "insert_trips"]
    /\ UNCHANGED <<rt_tables, rt_locals, rt_cycle, rt_prior, departures, rt_frame>>

\* db.delete_records("stop_time_update")
DeleteStopTimes(p) ==
    /\ rt_pc[p] = "delete_stu"
    /\ stop_time_update' = delete_all(stop_time_update)
    /\ rt_pc' = [rt_pc EXCEPT ![p] = "insert_trips"]
    /\ UNCHANGED <<trips_real_time, rt_locals, rt_cycle, rt_prior, departures, rt_frame>>

\* if trip_updates: db.insert_data("trips_real_time", ...) else a warning
InsertTrips(p) ==
    /\ rt_pc[p] = "insert_trips"
    /\ trips_real_time' =
          IF trip_updates[p] # <<>>
          THEN insert_data(trips_real_time, "trips_real_time", trip_updates[p])
          ELSE trips_real_time
    /\ rt_pc' = [rt_pc EXCEPT ![p] = "insert_stu"]
    /\ UNCHANGED <<stop_time_update, rt_locals, rt_cycle, rt_prior, departures, rt_frame>>

\* if stop_time_updates: db.insert_data("stop_time_update", ...) else a
\* warning; then close_all_connections and the script ends.
InsertStopTimes(p) ==
    /\ rt_pc[p] = "insert_stu"
    /\ stop_time_update' =
          IF stop_time_updates[p] # <<>>
          THEN insert_data(stop_time_update, "stop_time_update",
                           stop_time_updates[p])
          ELSE stop_time_update
    /\ rt_pc' = [rt_pc EXCEPT ![p] = "done"]
    /\ UNCHANGED <<trips_real_time, rt_locals, rt_cycle, rt_prior, departures, rt_frame>>

\* The bot answers a departure command while the script runs: one SELECT
\* on the committed state.
get_station_departures ==
    /\ \E station_id \in StopIds, now \in QueryTimes :
          departures' = [kind |-> "station", stop |-> station_id,
                         route |-> "", now |-> now,
                         rows |-> station_departures(trips_real_time,
                                     stop_time_update, station_id, now),
                         during |-> ReconcilingNow]
    /\ UNCHANGED <<rt_tables, rt_pc, rt_locals, rt_cycle, rt_prior, rt_frame>>

\* The bot answers a departure command for one route of a station.  The
\* history field is kept for the station query only.
get_route_departures ==
    /\ \E station_id \in StopIds, route_name \in RouteIds, now \in QueryTimes :
          departures' = [kind |-> "route", stop |-> station_id,
                         route |-> route_name, now |-> now,
                         rows |-> route_departures(trips_real_time,
                                     stop_time_update, station_id,
                                     route_name, now),
                         during |-> [p \in Procs |-> 0]]
    /\ UNCHANGED <<rt_tables, rt_pc, rt_locals, rt_cycle, rt_prior, rt_frame>>

RealtimeStep(p) ==
    \/ StartCycle(p)
    \/ FetchOk(p)
    \/ FetchFailed(p)
    \/ FetchMalformed(p)
    \/ FetchHangs(p)
    \/ ProcessFeeds(p)
    \/ StorageError(p)
    \/ DeleteTrips(p)
    \/ DeleteStopTimes(p)
    \/ InsertTrips(p)
    \/ InsertStopTimes(p)

\* One ingestion process at a time (the scheduler's period is longer than
\* a cycle), and the bot's queries.
NextRealtime ==
    \/ RealtimeStep(1)
    \/ get_station_departures

-----------------------------------------------------------------------------
(* utils/bot_queries.py: fetch_user_alerts *)

\* Mutant: the comparisons with NOW() are not strict.
alert_status_inclusive(start_time, end_time, now) ==
    IF start_time # NULL /\ start_time >= now THEN "upcoming"
    ELSE IF end_time # NULL /\ end_time <= now THEN "past"
    ELSE "active"

\* CASE WHEN start_time > NOW() ... WHEN end_time < NOW() ... ELSE 'active';
\* a comparison with NULL is not true.
alert_status(start_time, end_time, now) ==
    IF start_time # NULL /\ start_time > now THEN "upcoming"
    ELSE IF end_time # NULL /\ end_time < now THEN "past"
    ELSE "active"

\* COALESCE(ie.route_id, ie.stop_id)
Coalesce(a, b) == IF a # "NULL" THEN a ELSE b

\* The rows of alerts JOIN active_periods JOIN informed_entities JOIN
\* subscriptions ON (s.route_id = ie.route_id OR s.stop_id = ie.stop_id)
\* for one user; NULL equals nothing.
user_alert_rows(a_tbl, ap_tbl, ie_tbl, s_tbl, user_id, now) ==
    { [alert_id |-> a_tbl[q[1]].alert_id,
       header_text |-> a_tbl[q[1]].header_text,
       description_text |-> a_tbl[q[1]].description_text,
       start_time |-> ap_tbl[q[2]].start_time,
       end_time |-> ap_tbl[q[2]].end_time,
       alert_status |-> alert_status(ap_tbl[q[2]].start_time,
                                     ap_tbl[q[2]].end_time, now),
       entity_id |-> Coalesce(ie_tbl[q[3]].route_id, ie_tbl[q[3]].stop_id)] :
      q \in { t \in (1..Len(a_tbl)) \X (1..Len(ap_tbl)) \X (1..Len(ie_tbl))
                      \X (1..Len(s_tbl)) :
                /\ a_tbl[t[1]].alert_id = ap_tbl[t[2]].alert_id
                /\ a_tbl[t[1]].alert_id = ie_tbl[t[3]].alert_id
                /\ \/ /\ s_tbl[t[4]].route_id # "NULL"
                      /\ s_tbl[t[4]].route_id = ie_tbl[t[3]].route_id
                   \/ /\ s_tbl[t[4]].stop_id # "NULL"
                      /\ s_tbl[t[4]].stop_id = ie_tbl[t[3]].stop_id
                /\ s_tbl[t[4]].user_id = user_id } }

\* Mutant: the periods are joined without their ON condition.
user_alert_join_any_period(a_tbl, ap_tbl, ie_tbl, s_tbl, user_id) ==
    { t \in (1..Len(a_tbl)) \X (1..Len(ap_tbl)) \X (1..Len(ie_tbl))
              \X (1..Len(s_tbl)) :
        /\ a_tbl[t[1]].alert_id = ie_tbl[t[3]].alert_id
        /\ \/ /\ s_tbl[t[4]].route_id # "NULL"
              /\ s_tbl[t[4]].route_id = ie_tbl[t[3]].route_id
           \/ /\ s_tbl[t[4]].stop_id # "NULL"
              /\ s_tbl[t[4]].stop_id = ie_tbl[t[3]].stop_id
        /\ s_tbl[t[4]].user_id = user_id }

\* The join of fetch_user_alerts, one tuple of row numbers <<alert, period,
\* entity, subscription>> per joined row.
user_alert_join(a_tbl, ap_tbl, ie_tbl, s_tbl, user_id) ==
    { t \in (1..Len(a_tbl)) \X (1..Len(ap_tbl)) \X (1..Len(ie_tbl))
              \X (1..Len(s_tbl)) :
        /\ a_tbl[t[1]].alert_id = ap_tbl[t[2]].alert_id
        /\ a_tbl[t[1]].alert_id = ie_tbl[t[3]].alert_id
        /\ \/ /\ s_tbl[t[4]].route_id # "NULL"
              /\ s_tbl[t[4]].route_id = ie_tbl[t[3]].route_id
           \/ /\ s_tbl[t[4]].stop_id # "NULL"
              /\ s_tbl[t[4]].stop_id = ie_tbl[t[3]].stop_id
        /\ s_tbl[t[4]].user_id = user_id }

\* The SELECT list of fetch_user_alerts for one joined row.
user_alert_row(a_tbl, ap_tbl, ie_tbl, t, now) ==
    [alert_id |-> a_tbl[t[1]].alert_id,
     header_text |-> a_tbl[t[1]].header_text,
     description_text |-> a_tbl[t[1]].description_text,
     start_time |-> ap_tbl[t[2]].start_time,
     end_time |-> ap_tbl[t[2]].end_time,
     alert_status |-> alert_status(ap_tbl[t[2]].start_time,
                                   ap_tbl[t[2]].end_time, now),
     entity_id |-> Coalesce(ie_tbl[t[3]].route_id, ie_tbl[t[3]].stop_id)]

\* The identifiers of the model in the ascending order of text.
EntityOrder == <<"A", "B", "s1", "s2">>

\* Mutant: the statuses in ascending order of text.
StatusOrderAscending == <<"active", "past", "upcoming">>

\* alert_status DESC: the statuses in descending order of text.
StatusOrder == <<"upcoming", "past", "active">>

PlaceIn(order, x) == CHOOSE i \in 1..Len(order) : order[i] = x

\* ORDER BY entity_id, alert_status DESC, ap.start_time ASC: whether row
\* r1 must come before row r2.  In ascending order a NULL comes last.
OrderedBefore(r1, r2) ==
    LET e1 == PlaceIn(EntityOrder, r1.entity_id)
        e2 == PlaceIn(EntityOrder, r2.entity_id)
        s1 == PlaceIn(StatusOrder, r1.alert_status)
        s2 == PlaceIn(StatusOrder, r2.alert_status)
    IN \/ e1 < e2
       \/ e1 = e2 /\ s1 < s2
       \/ /\ e1 = e2 /\ s1 = s2
          /\ r1.start_time # NULL
          /\ r2.start_time = NULL \/ r1.start_time < r2.start_time

\* The lists the ORDER BY clause may produce from a set of joined rows:
\* rows that the clause does not order come in any order.
RECURSIVE OrderedLists(_, _, _, _, _)
OrderedLists(J, a_tbl, ap_tbl, ie_tbl, now) ==
    IF J = {} THEN {<<>>}
    ELSE LET Row(t) == user_alert_row(a_tbl, ap_tbl, ie_tbl, t, now)
             First == { t \in J : \A u \in J : ~OrderedBefore(Row(u), Row(t)) }
         IN UNION { { <<Row(t)>> \o rest :
                        rest \in OrderedLists(J \ {t}, a_tbl, ap_tbl, ie_tbl, now) } :
                    t \in First }

\* What fetch_user_alerts may return: the joined rows in the order of the
\* ORDER BY clause.
user_alert_lists(a_tbl, ap_tbl, ie_tbl, s_tbl, user_id, now) ==
    OrderedLists(user_alert_join(a_tbl, ap_tbl, ie_tbl, s_tbl, user_id),
                 a_tbl, ap_tbl, ie_tbl, now)

-----------------------------------------------------------------------------
(* mta_data_pipeline/upload_alerts_feed_to_postgres.py *)

AlertState == [alerts |-> alerts, active_periods |-> active_periods,
               informed_entities |-> informed_entities]

\* The positions between the first and the last statement of a run.
Updating == {"select", "upsert", "delete_periods", "insert_periods",
             "delete_entities", "insert_entities"}

UpdatingNow ==
    [p \in Procs |-> IF al_pc[p] \in Updating THEN al_cycle[p] ELSE 0]

NoAlertQuery == [user_id |-> 0, now |-> 0, rows |-> {}, list |-> <<>>,
                 during |-> [p \in Procs |-> 0]]

InitAlerts ==
    /\ alerts = <<>>
    /\ active_periods = <<>>
    /\ informed_entities = <<>>
    /\ al_pc = [p \in Procs |-> "idle"]
    /\ al_alerts = [p \in Procs |-> <<>>]
    /\ al_i = [p \in Procs |-> 1]
    /\ existing_alert = [p \in Procs |-> FALSE]
    /\ al_count = 0
    /\ al_cycle = [p \in Procs |-> 0]
    /\ al_prior = [alerts |-> <<>>, active_periods |-> <<>>,
                   informed_entities |-> <<>>]
    /\ user_alerts = NoAlertQuery

al_tables == <<alerts, active_periods, informed_entities>>
al_frame == <<rt_vars, subscriptions, bot_vars>>

\* The alert the for loop is at.
alert(p) == al_alerts[p][al_i[p]]

\* The scheduler starts the script.  The second slot is taken only while
\* the first is busy.
StartAlertRun(p) ==
    /\ al_pc[p] \in {"idle", "done", "failed"}
    /\ p = 1 \/ al_pc[1] \notin {"idle", "done", "failed"}
    /\ al_count < MaxCycles
    /\ al_count' = al_count + 1
    /\ al_cycle' = [al_cycle EXCEPT ![p] = al_count + 1]
    /\ al_pc' = [al_pc EXCEPT ![p] = "fetch"]
    /\ al_alerts' = [al_alerts EXCEPT ![p] = <<>>]
    /\ al_i' = [al_i EXCEPT ![p] = 1]
    /\ existing_alert' = [existing_alert EXCEPT ![p] = FALSE]
    /\ al_prior' = AlertState
    /\ UNCHANGED <<al_tables, user_alerts, al_frame>>

\* fetch_gtfs_realtime_data(url), then process_gtfs_feed_data([feed]): the
\* feed is a FeedMessage, or None after a RequestException.
FetchAlerts(p) ==
    /\ al_pc[p] = "fetch"
    /\ \E feed \in AlertFeeds \union {NoneFeed} :
          LET out == process_gtfs_feed_data(<<feed>>)
          IN /\ al_alerts' = [al_alerts EXCEPT ![p] = out.alerts]
             /\ al_pc' = [al_pc EXCEPT ![p] =
                            IF out.alerts = <<>> THEN "done" ELSE "select"]
    /\ UNCHANGED <<al_tables, al_i, existing_alert, al_count, al_cycle,
                   al_prior, user_alerts, al_frame>>

\* Mutant: a fetch that fails is taken for a feed without alerts, and the
\* stored alerts are cleared.
FetchAlertsMalformedClears(p) ==
    /\ al_pc[p] = "fetch"
    /\ al_pc' = [al_pc EXCEPT ![p] = "failed"]
    /\ alerts' = <<>>
    /\ active_periods' = <<>>
    /\ informed_entities' = <<>>
    /\ UNCHANGED <<al_alerts, al_i, existing_alert, al_count,
                   al_cycle, al_prior, user_alerts, al_frame>>

\* The answer is not a FeedMessage: ParseFromString raises DecodeError
\* inside the try of the script, whose except clause logs it; the run
\* ends.
FetchAlertsMalformed(p) ==
    /\ al_pc[p] = "fetch"
    /\ al_pc' = [al_pc EXCEPT ![p] = "failed"]
    /\ UNCHANGED <<al_tables, al_alerts, al_i, existing_alert, al_count,
                   al_cycle, al_prior, user_alerts, al_frame>>

\* The endpoint never answers: requests.get, called without a timeout,
\* does not return.
FetchAlertsHangs(p) ==
    /\ al_pc[p] = "fetch"
    /\ al_pc' = [al_pc EXCEPT ![p] = "hung"]
    /\ UNCHANGED <<al_tables, al_alerts, al_i, existing_alert, al_count,
                   al_cycle, al_prior, user_alerts, al_frame>>

\* A statement fails with a psycopg2.DatabaseError: execute_sql_query
\* rolls the statement back and re-raises; the script's except clause
\* logs the error and the run ends.
AlertStorageError(p) ==
    /\ al_pc[p] \in Updating
    /\ al_pc' = [al_pc EXCEPT ![p] = "failed"]
    /\ UNCHANGED <<al_tables, al_alerts, al_i, existing_alert, al_count,
                   al_cycle, al_prior, user_alerts, al_frame>>

\* SELECT alert_id FROM alerts WHERE alert_id = %s
SelectAlert(p) ==
    /\ al_pc[p] = "select"
    /\ existing_alert' = [existing_alert EXCEPT ![p] =
          \E i \in 1..Len(alerts) : alerts[i].alert_id = alert(p).alert_id]
    /\ al_pc' = [al_pc EXCEPT ![p] = "upsert"]
    /\ UNCHANGED <<al_tables, al_alerts, al_i, al_count, al_cycle, al_prior,
                   user_alerts, al_frame>>

\* Mutant: an alert that is stored already is left as it is.
update_alert_skipped(table, a) == table

\* Database.update_records('alerts', set_columns, where_conditions, ...):
\* UPDATE alerts SET header_text, description_text WHERE alert_id.
update_alert(table, a) ==
    [i \in 1..Len(table) |->
        IF table[i].alert_id = a.alert_id
        THEN [table[i] EXCEPT !.header_text = a.header_text,
                              !.description_text = a.description_text]
        ELSE table[i]]

\* The row db.insert_data('alerts', ...) adds: last_updated is DEFAULT
\* NOW(), the time of the run.
alert_row(a, now) ==
    [alert_id |-> a.alert_id, header_text |-> a.header_text,
     description_text |-> a.description_text, last_updated |-> now]

\* if existing_alert: update_records(...) else: insert_data(...)
UpsertAlert(p) ==
    /\ al_pc[p] = "upsert"
    /\ alerts' =
          IF existing_alert[p]
          THEN update_alert(alerts, alert(p))
          ELSE insert_data(alerts, "alerts", <<alert_row(alert(p), al_cycle[p])>>)
    /\ al_pc' = [al_pc EXCEPT ![p] = "delete_periods"]
    /\ UNCHANGED <<active_periods, informed_entities, al_alerts, al_i,
                   existing_alert, al_count, al_cycle, al_prior, user_alerts,
                   al_frame>>

active_period_rows(a) ==
    [i \in 1..Len(a.active_periods) |->
        [alert_id |-> a.alert_id, start_time |-> a.active_periods[i][1],
         end_time |-> a.active_periods[i][2]]]

informed_entity_rows(a) ==
    [i \in 1..Len(a.informed_entities) |->
        [alert_id |-> a.alert_id, agency_id |-> a.informed_entities[i][1],
         route_id |-> a.informed_entities[i][2],
         stop_id |-> a.informed_entities[i][3]]]

\* Mutant: the periods are deleted only when there are new ones.
DeletePeriodsIfRows(p) ==
    /\ al_pc[p] = "delete_periods"
    /\ active_periods' =
          IF active_period_rows(alert(p)) # <<>>
          THEN delete_where_alert_id(active_periods, alert(p).alert_id)
          ELSE active_periods
    /\ al_pc' = [al_pc EXCEPT ![p] = "insert_periods"]
    /\ UNCHANGED <<alerts, informed_entities, al_alerts, al_i, existing_alert,
                   al_count, al_cycle, al_prior, user_alerts, al_frame>>

\* db.delete_records('active_periods', {'alert_id': alert_id})
DeletePeriods(p) ==
    /\ al_pc[p] = "delete_periods"
    /\ active_periods' = delete_where_alert_id(active_periods, alert(p).alert_id)
    /\ al_pc' = [al_pc EXCEPT ![p] = "insert_periods"]
    /\ UNCHANGED <<alerts, informed_entities, al_alerts, al_i, existing_alert,
                   al_count, al_cycle, al_prior, user_alerts, al_frame>>

\* if active_period_rows: db.insert_data('active_periods', ...)
InsertPeriods(p) ==
    /\ al_pc[p] = "insert_periods"
    /\ active_periods' =
          IF active_period_rows(alert(p)) # <<>>
          THEN insert_data(active_periods, "active_periods",
                           active_period_rows(alert(p)))
          ELSE active_periods
    /\ al_pc' = [al_pc EXCEPT ![p] = "delete_entities"]
    /\ UNCHANGED <<alerts, informed_entities, al_alerts, al_i, existing_alert,
                   al_count, al_cycle, al_prior, user_alerts, al_frame>>

\* db.delete_records('informed_entities', {'alert_id': alert_id})
DeleteEntities(p) ==
    /\ al_pc[p] = "delete_entities"
    /\ informed_entities' =
          delete_where_alert_id(informed_entities, alert(p).alert_id)
    /\ al_pc' = [al_pc EXCEPT ![p] = "insert_entities"]
    /\ UNCHANGED <<alerts, active_periods, al_alerts, al_i, existing_alert,
                   al_count, al_cycle, al_prior, user_alerts, al_frame>>

\* if informed_entity_rows: db.insert_data('informed_entities', ...); then
\* the next alert, or the end of the run.
InsertEntities(p) ==
    /\ al_pc[p] = "insert_entities"
    /\ informed_entities' =
          IF informed_entity_rows(alert(p)) # <<>>
          THEN insert_data(informed_entities, "informed_entities",
                           informed_entity_rows(alert(p)))
          ELSE informed_entities
    /\ IF al_i[p] < Len(al_alerts[p])
       THEN /\ al_i' = [al_i EXCEPT ![p] = @ + 1]
            /\ al_pc' = [al_pc EXCEPT ![p] = "select"]
       ELSE /\ al_i' = al_i
            /\ al_pc' = [al_pc EXCEPT ![p] = "done"]
    /\ UNCHANGED <<alerts, active_periods, al_alerts, existing_alert,
                   al_count, al_cycle, al_prior, user_alerts, al_frame>>

UserIds == {1}

\* The bot answers an alerts command while the script runs: one SELECT on
\* the committed state.  `list` is the result; `rows` is the set of its
\* rows.
fetch_user_alerts ==
    /\ \E user_id \in UserIds, now \in QueryTimes :
          \E list \in user_alert_lists(alerts, active_periods,
                          informed_entities, subscriptions, user_id, now) :
             user_alerts' = [user_id |-> user_id, now |-> now,
                             rows |-> user_alert_rows(alerts, active_periods,
                                         informed_entities, subscriptions,
                                         user_id, now),
                             list |-> list,
                             during |-> UpdatingNow]
    /\ UNCHANGED <<al_tables, al_pc, al_alerts, al_i, existing_alert,
                   al_count, al_cycle, al_prior, al_frame>>

AlertStep(p) ==
    \/ StartAlertRun(p)
    \/ FetchAlerts(p)
    \/ FetchAlertsMalformed(p)
    \/ FetchAlertsHangs(p)
    \/ AlertStorageError(p)
    \/ SelectAlert(p)
    \/ UpsertAlert(p)
    \/ DeletePeriods(p)
    \/ InsertPeriods(p)
    \/ DeleteEntities(p)
    \/ InsertEntities(p)

\* One alert ingestion process at a time, and the bot's queries.
NextAlerts ==
    \/ AlertStep(1)
    \/ fetch_user_alerts

\* Runs of the alert script that overlap.
NextAlertsOverlap == \E p \in Procs : AlertStep(p)

-----------------------------------------------------------------------------
(* utils/bot_helpers.py, bot/bot.py *)

\* The handlers that may be in progress at a time.
Handlers == {1, 2}

\* The bot processes that may be deployed.
BotProcs == {1, 2}

\* str(interaction.user.name)
Usernames == {"ann", "bob"}

\* What a user may type as the station and route option: an entry of the
\* autocomplete list, or any other text.
StationNames == {"Station One, Main St (N)", "No matching stations found"}
RouteNames == {"A (8 Avenue Express)", "Z"}

\* STATION_MAP_REVERSE.get(station, None)
STATION_MAP_REVERSE(station) ==
    IF station = "Station One, Main St (N)" THEN "s1" ELSE "NULL"

\* ROUTE_MAP_REVERSE.get(route_name, None)
ROUTE_MAP_REVERSE(route_name) ==
    IF route_name = "A (8 Avenue Express)" THEN "A" ELSE "NULL"

\* STATION_MAP.get(stop_id, ROUTE_MAP.get(route_id, None)): the label of a
\* menu option; "NULL" is None.
OptionLabel(stop_id, route_id) ==
    IF stop_id = "s1" THEN "Station One, Main St (N)"
    ELSE IF route_id = "A" THEN "A (8 Avenue Express)"
    ELSE "NULL"

NoCommand == [kind |-> "none", user |-> "", name |-> "", stop_id |-> "NULL",
              route_id |-> "NULL", user_id |-> 0, options |-> {},
              alerts |-> <<>>, sends |-> 0, response |-> "",
              raised |-> ""]

InitHandlers ==
    /\ bot_pc = [h \in Handlers |-> "idle"]
    /\ bot_local = [h \in Handlers |-> NoCommand]
    /\ bot_count = 0

bot_tables == <<users, users_user_id_seq, subscriptions,
                subscriptions_subscription_id_seq>>
bot_frame == <<rt_vars, al_vars, bot_proc>>

\* The positions at which a handler has ended.
Returned == {"idle", "failed"}

\* The positions from the start of a handler to the await of
\* interaction.response.send_message: the calls in between are
\* synchronous (awaiting get_or_create_user_id does not suspend), so the
\* event loop of the process runs nothing else meanwhile.
Synchronous == {"select_user", "insert_user", "reselect_user",
                "select_subscription", "insert_subscription",
                "get_user_subscriptions", "show_user_subscriptions",
                "send_alerts"}

\* Mutant: the event loop switches handlers between any two statements.
BlockedNever(h) == FALSE

\* Whether the event loop of the handler's process is running another
\* handler.
Blocked(h) ==
    \E g \in Handlers \ {h} :
        bot_proc[g] = bot_proc[h] /\ bot_pc[g] \in Synchronous

\* The rows of users with the username.
UserRecord(user) == SelectSeq(users, LAMBDA r : r.username = user)

\* The statement after get_or_create_user_id in each handler.
AfterUser(kind) ==
    CASE kind = "unsubscribe" -> "get_user_subscriptions"
      [] kind = "view_subscriptions" -> "show_user_subscriptions"
      [] kind = "view_alerts" -> "send_alerts"
      [] OTHER -> "select_subscription"

\* A slash command arrives in a direct message and the event loop of the
\* process starts its handler: subscribe_station, subscribe_route,
\* view_subscriptions, unsubscribe or view_alerts with the options the
\* user submitted.  The second handler is taken only while
\* the first is in progress.
Command(h) ==
    /\ bot_pc[h] \in Returned
    /\ h = 1 \/ bot_pc[1] \notin Returned
    /\ ~Blocked(h)
    /\ bot_count < MaxCommands
    /\ \E user \in Usernames :
          \/ \E station \in StationNames :
                bot_local' = [bot_local EXCEPT ![h] =
                    [NoCommand EXCEPT !.kind = "subscribe_station",
                                      !.user = user, !.name = station,
                                      !.stop_id = STATION_MAP_REVERSE(station)]]
          \/ \E route_name \in RouteNames :
                bot_local' = [bot_local EXCEPT ![h] =
                    [NoCommand EXCEPT !.kind = "subscribe_route",
                                      !.user = user, !.name = route_name,
                                      !.route_id = ROUTE_MAP_REVERSE(route_name)]]
          \/ \E kind \in {"view_subscriptions", "unsubscribe", "view_alerts"} :
                bot_local' = [bot_local EXCEPT ![h] =
                    [NoCommand EXCEPT !.kind = kind, !.user = user]]
    /\ bot_pc' = [bot_pc EXCEPT ![h] = "select_user"]
    /\ bot_count' = bot_count + 1
    /\ UNCHANGED <<bot_tables, bot_frame>>

\* get_or_create_user_id: SELECT user_id FROM users WHERE username = %s;
\* if user_record: return user_record[0]['user_id']
SelectUser(h) ==
    /\ bot_pc[h] = "select_user"
    /\ LET user_record == UserRecord(bot_local[h].user)
       IN IF user_record # <<>>
          THEN /\ bot_local' = [bot_local EXCEPT
                                   ![h].user_id = user_record[1].user_id]
               /\ bot_pc' = [bot_pc EXCEPT ![h] = AfterUser(bot_local[h].kind)]
          ELSE /\ bot_local' = bot_local
               /\ bot_pc' = [bot_pc EXCEPT ![h] = "insert_user"]
    /\ UNCHANGED <<bot_tables, bot_count, bot_frame>>

\* get_or_create_user_id: db.insert_data("users", ("username",), [(user,)]).
\* The SERIAL default takes the next value of the sequence before the
\* conflict on username is found.
InsertUser(h) ==
    /\ bot_pc[h] = "insert_user"
    /\ users_user_id_seq' = users_user_id_seq + 1
    /\ users' = insert_data(users, "users",
                    <<[user_id |-> users_user_id_seq + 1,
                       username |-> bot_local[h].user]>>)
    /\ bot_pc' = [bot_pc EXCEPT ![h] = "reselect_user"]
    /\ UNCHANGED <<subscriptions, subscriptions_subscription_id_seq,
                   bot_local, bot_count, bot_frame>>

\* get_or_create_user_id: the second SELECT and
\* return user_record[0]['user_id']; on an empty result the subscript
\* raises IndexError and the handler ends.
ReselectUser(h) ==
    /\ bot_pc[h] = "reselect_user"
    /\ LET user_record == UserRecord(bot_local[h].user)
       IN IF user_record # <<>>
          THEN /\ bot_local' = [bot_local EXCEPT
                                   ![h].user_id = user_record[1].user_id]
               /\ bot_pc' = [bot_pc EXCEPT ![h] = AfterUser(bot_local[h].kind)]
          ELSE /\ bot_local' = [bot_local EXCEPT ![h].raised = "IndexError"]
               /\ bot_pc' = [bot_pc EXCEPT ![h] = "failed"]
    /\ UNCHANGED <<bot_tables, bot_count, bot_frame>>

\* Whether a subscriptions row is the one the handler asks for:
\* user_id = %s AND stop_id = %s (resp. route_id = %s).  With None for
\* the identifier the comparison is with NULL and is true of no row.
IsSubscription(r, l) ==
    /\ r.user_id = l.user_id
    /\ IF l.kind = "subscribe_station"
       THEN l.stop_id # "NULL" /\ r.stop_id = l.stop_id
       ELSE l.route_id # "NULL" /\ r.route_id = l.route_id

\* handle_station_subscription, handle_route_subscription:
\* exists = SELECT 1 FROM subscriptions WHERE ...; if exists, the answer
\* is 'You are already subscribed to ...'.
SelectSubscription(h) ==
    /\ bot_pc[h] = "select_subscription"
    /\ IF \E k \in 1..Len(subscriptions) :
             IsSubscription(subscriptions[k], bot_local[h])
       THEN /\ bot_local' = [bot_local EXCEPT
                                ![h].response = "already subscribed"]
            /\ bot_pc' = [bot_pc EXCEPT ![h] = "idle"]
       ELSE /\ bot_local' = bot_local
            /\ bot_pc' = [bot_pc EXCEPT ![h] = "insert_subscription"]
    /\ UNCHANGED <<bot_tables, bot_count, bot_frame>>

\* handle_station_subscription, handle_route_subscription:
\* db.insert_data("subscriptions", ("user_id", "stop_id", "route_id"),
\* [(user_id, stop_id, None)]) (resp. [(user_id, None, route_id)]); the
\* answer is 'Successfully subscribed to ...'.
InsertSubscription(h) ==
    /\ bot_pc[h] = "insert_subscription"
    /\ subscriptions_subscription_id_seq' =
          subscriptions_subscription_id_seq + 1
    /\ subscriptions' = insert_data(subscriptions, "subscriptions",
          <<[subscription_id |-> subscriptions_subscription_id_seq + 1,
             user_id |-> bot_local[h].user_id,
             stop_id |-> bot_local[h].stop_id,
             route_id |-> bot_local[h].route_id]>>)
    /\ bot_local' = [bot_local EXCEPT ![h].response = "subscribed"]
    /\ bot_pc' = [bot_pc EXCEPT ![h] = "idle"]
    /\ UNCHANGED <<users, users_user_id_seq, bot_count, bot_frame>>

\* get_user_subscriptions(user_id): the subscription_id of the rows
\* SELECT ... FROM subscriptions WHERE user_id = %s returns.
get_user_subscriptions(user_id) ==
    { subscriptions[k].subscription_id :
         k \in { m \in 1..Len(subscriptions) :
                   subscriptions[m].user_id = user_id } }

\* show_user_subscriptions: subscriptions = get_user_subscriptions(user_id);
\* the answer lists them, or says that there are none.
ShowUserSubscriptions(h) ==
    /\ bot_pc[h] = "show_user_subscriptions"
    /\ LET subs == get_user_subscriptions(bot_local[h].user_id)
       IN bot_local' = [bot_local EXCEPT
             ![h].options = subs,
             ![h].response = IF subs = {} THEN "no subscriptions yet"
                             ELSE "your subscriptions"]
    /\ bot_pc' = [bot_pc EXCEPT ![h] = "idle"]
    /\ UNCHANGED <<bot_tables, bot_count, bot_frame>>

\* The rows of a list whose status is 'active', in the order of the list.
ActiveOnly(list) == SelectSeq(list, LAMBDA r : r.alert_status = "active")

\* str() of a timestamp of a row: 'YYYY-MM-DD HH:MM:SS', or 'None'.
TimeLength(t) == IF t = NULL THEN 4 ELSE 19

\* send_alerts: the number of characters the alerts of an entity add to
\* its message: '**:warning:: {header_text}**\n{description_text}\n
\* **Active From**: {start_time} to {end_time}\n\n' for each; a text
\* that is None is written 'None'.
RECURSIVE AlertsLength(_)
AlertsLength(rows) ==
    IF rows = <<>> THEN 0
    ELSE 40 + Len(Head(rows).header_text) + Len(Head(rows).description_text)
            + TimeLength(Head(rows).start_time)
            + TimeLength(Head(rows).end_time)
            + AlertsLength(Tail(rows))

\* send_alerts: the rows of the list for one entity_id.
OrganizedAlerts(list, entity) ==
    SelectSeq(list, LAMBDA r : r.entity_id = entity)

\* send_alerts: the length of the message of an entity:
\* '**Alerts for {entity}:**\n' and its active alerts.
MessageLength(list, entity) ==
    17 + Len(entity) + AlertsLength(ActiveOnly(OrganizedAlerts(list, entity)))

\* send_alerts: the number of send_message calls for a message.
Chunks(length) ==
    IF length > MessageLimit
    THEN (length + ChunkSize - 1) \div ChunkSize
    ELSE 1

\* send_alerts: the number of send_message calls for the entities.
RECURSIVE SendCount(_, _)
SendCount(list, entities) ==
    IF entities = {} THEN 0
    ELSE LET entity == CHOOSE x \in entities : TRUE
         IN Chunks(MessageLength(list, entity))
               + SendCount(list, entities \ {entity})

\* send_alerts: alerts = fetch_user_alerts(user_id); without rows the
\* answer is 'No new alerts available.'; otherwise the rows are grouped
\* by entity_id and the first message, with the active alerts of the
\* first entity, is sent: the handler awaits it.
SendAlerts(h) ==
    /\ bot_pc[h] = "send_alerts"
    /\ \E now \in QueryTimes :
          \E list \in user_alert_lists(alerts, active_periods,
                          informed_entities, subscriptions,
                          bot_local[h].user_id, now) :
             IF list = <<>>
             THEN /\ bot_local' = [bot_local EXCEPT
                                      ![h].response = "no new alerts"]
                  /\ bot_pc' = [bot_pc EXCEPT ![h] = "idle"]
             ELSE /\ bot_local' = [bot_local EXCEPT
                        ![h].alerts = ActiveOnly(
                            OrganizedAlerts(list, list[1].entity_id)),
                        ![h].sends = SendCount(list,
                            { list[k].entity_id : k \in 1..Len(list) }),
                        ![h].response = "alerts"]
                  /\ bot_pc' = [bot_pc EXCEPT ![h] = "sending"]
    /\ UNCHANGED <<bot_tables, bot_count, bot_frame>>

\* send_alerts resumes after its first message.  The response of an
\* interaction takes one message: when there is another entity, or
\* another piece of a long message, the next send_message raises
\* InteractionResponded; otherwise the handler returns.
SendAlertsResumes(h) ==
    /\ bot_pc[h] = "sending"
    /\ ~Blocked(h)
    /\ IF bot_local[h].sends > 1
       THEN /\ bot_local' = [bot_local EXCEPT
                                ![h].raised = "InteractionResponded"]
            /\ bot_pc' = [bot_pc EXCEPT ![h] = "failed"]
       ELSE /\ bot_local' = bot_local
            /\ bot_pc' = [bot_pc EXCEPT ![h] = "idle"]
    /\ UNCHANGED <<bot_tables, bot_count, bot_frame>>

\* handle_station_subscription, handle_route_subscription: the INSERT
\* raises (the connection is lost, say); execute_sql_query rolls back and
\* re-raises, and the except branch answers 'Failed to subscribe: ...'.
\* No row is stored; the sequence may have given its next value.
InsertSubscriptionFails(h) ==
    /\ bot_pc[h] = "insert_subscription"
    /\ subscriptions_subscription_id_seq' \in
          {subscriptions_subscription_id_seq,
           subscriptions_subscription_id_seq + 1}
    /\ bot_local' = [bot_local EXCEPT ![h].response = "failed to subscribe"]
    /\ bot_pc' = [bot_pc EXCEPT ![h] = "idle"]
    /\ UNCHANGED <<users, users_user_id_seq, subscriptions, bot_count,
                   bot_frame>>

\* Any other statement of a handler raises: execute_sql_query rolls back
\* and re-raises, nothing catches it and the handler ends without an
\* answer.  A failed INSERT into users may have taken a value of the
\* sequence.
HandlerStorageError(h) ==
    /\ bot_pc[h] \in Synchronous \ {"insert_subscription"}
    /\ users_user_id_seq' \in
          IF bot_pc[h] = "insert_user"
          THEN {users_user_id_seq, users_user_id_seq + 1}
          ELSE {users_user_id_seq}
    /\ bot_local' = [bot_local EXCEPT ![h].raised = "DatabaseError"]
    /\ bot_pc' = [bot_pc EXCEPT ![h] = "failed"]
    /\ UNCHANGED <<users, subscriptions, subscriptions_subscription_id_seq,
                   bot_count, bot_frame>>

\* Whether an option of the menu has the label None.
SomeLabelNone(user_id) ==
    \E k \in 1..Len(subscriptions) :
        /\ subscriptions[k].user_id = user_id
        /\ OptionLabel(subscriptions[k].stop_id,
                       subscriptions[k].route_id) = "NULL"

\* handle_unsubscribe: subscriptions = get_user_subscriptions(user_id);
\* without subscriptions the answer says so; otherwise the menu of the
\* user's subscriptions is sent.  An option whose label is None is not a
\* valid option: the menu is sent with it or the sending raises.
UnsubscribeMenu(h) ==
    /\ bot_pc[h] = "get_user_subscriptions"
    /\ LET options == get_user_subscriptions(bot_local[h].user_id)
       IN \/ /\ options = {}
             /\ bot_local' = [bot_local EXCEPT
                                 ![h].response = "no subscriptions"]
             /\ bot_pc' = [bot_pc EXCEPT ![h] = "idle"]
          \/ /\ options # {}
             /\ bot_local' = [bot_local EXCEPT ![h].options = options,
                                               ![h].response = "select"]
             /\ bot_pc' = [bot_pc EXCEPT ![h] = "menu"]
          \/ /\ options # {}
             /\ SomeLabelNone(bot_local[h].user_id)
             /\ bot_local' = [bot_local EXCEPT ![h].raised = "HTTPException"]
             /\ bot_pc' = [bot_pc EXCEPT ![h] = "failed"]
    /\ UNCHANGED <<bot_tables, bot_count, bot_frame>>

\* Database.delete_records("subscriptions", {"subscription_id": ...,
\* "user_id": ...}): DELETE ... WHERE subscription_id = ... AND user_id = ...
delete_where_subscription(table, subscription_id, user_id) ==
    SelectSeq(table, LAMBDA r : ~(/\ r.subscription_id = subscription_id
                                  /\ r.user_id = user_id))

\* unsubscribe_callback: the user selects an option of the menu; its
\* subscription is deleted and the answer is 'Successfully unsubscribed!'.
\* The menu stays in the message and may be used again.
UnsubscribeCallback(h) ==
    /\ bot_pc[h] = "menu"
    /\ ~Blocked(h)
    /\ \E subscription_id \in bot_local[h].options :
          subscriptions' = delete_where_subscription(subscriptions,
                               subscription_id, bot_local[h].user_id)
    /\ bot_local' = [bot_local EXCEPT ![h].response = "unsubscribed"]
    /\ UNCHANGED <<users, users_user_id_seq,
                   subscriptions_subscription_id_seq, bot_pc,
                   bot_count, bot_frame>>

\* The View of the menu times out: its callback is called no more.
ViewTimeout(h) ==
    /\ bot_pc[h] = "menu"
    /\ bot_pc' = [bot_pc EXCEPT ![h] = "idle"]
    /\ UNCHANGED <<bot_tables, bot_local, bot_count, bot_frame>>

HandlerStep(h) ==
    \/ Command(h)
    \/ SelectUser(h)
    \/ InsertUser(h)
    \/ ReselectUser(h)
    \/ SelectSubscription(h)
    \/ InsertSubscription(h)
    \/ ShowUserSubscriptions(h)
    \/ SendAlerts(h)
    \/ SendAlertsResumes(h)
    \/ UnsubscribeMenu(h)
    \/ UnsubscribeCallback(h)
    \/ ViewTimeout(h)

\* The handlers when every statement succeeds.
NextBots == \E h \in Handlers : HandlerStep(h)

\* The handlers, with statements that fail.
NextBot ==
    \E h \in Handlers :
        \/ HandlerStep(h)
        \/ InsertSubscriptionFails(h)
        \/ HandlerStorageError(h)

\* The rows the subscribe handlers of the bot insert: user 1 follows stop
\* s1 and route A.
Subscribed ==
    <<[subscription_id |-> 1, user_id |-> 1, stop_id |-> "s1",
       route_id |-> "NULL"],
      [subscription_id |-> 2, user_id |-> 1, stop_id |-> "NULL",
       route_id |-> "A"]>>

\* The bot as the ingestion scripts and the queries find it: one process,
\* no command in progress, user 1 registered with the two subscriptions.
Init ==
    /\ InitRealtime
    /\ InitAlerts
    /\ subscriptions = Subscribed
    /\ users = <<[user_id |-> 1, username |-> "ann"]>>
    /\ users_user_id_seq = 1
    /\ subscriptions_subscription_id_seq = 2
    /\ bot_proc = [h \in Handlers |-> 1]
    /\ InitHandlers

\* The alert tables and the alert script after one run that has stored
\* the two alerts of a feed.
InitAlertsStored ==
    LET batch == process_gtfs_feed_data(<<Feed(<<E_a2, E_a1v2>>)>>).alerts
    IN /\ alerts = <<alert_row(batch[1], 1), alert_row(batch[2], 1)>>
       /\ active_periods = active_period_rows(batch[1])
                              \o active_period_rows(batch[2])
       /\ informed_entities = informed_entity_rows(batch[1])
                                 \o informed_entity_rows(batch[2])
       /\ al_pc = [p \in Procs |-> IF p = 1 THEN "done" ELSE "idle"]
       /\ al_alerts = [p \in Procs |-> IF p = 1 THEN batch ELSE <<>>]
       /\ al_i = [p \in Procs |-> IF p = 1 THEN Len(batch) ELSE 1]
       /\ existing_alert = [p \in Procs |-> FALSE]
       /\ al_count = 1
       /\ al_cycle = [p \in Procs |-> IF p = 1 THEN 1 ELSE 0]
       /\ al_prior = [alerts |-> <<>>, active_periods |-> <<>>,
                      informed_entities |-> <<>>]
       /\ user_alerts = NoAlertQuery

\* The tables of the bot as create_schema.py leaves them, when the alert
\* script has run once.
InitUserTables ==
    /\ InitRealtime
    /\ InitAlertsStored
    /\ subscriptions = <<>>
    /\ users = <<>>
    /\ users_user_id_seq = 0
    /\ subscriptions_subscription_id_seq = 0
    /\ InitHandlers

\* One bot process: every handler runs on its event loop.
InitBot == InitUserTables /\ bot_proc = [h \in Handlers |-> 1]

\* Two bot processes on the same database, a handler in each; the
\* database answers every statement.
InitBots == InitUserTables /\ bot_proc = [h \in Handlers |-> h]

SpecBot == InitBot /\ [][NextBot]_vars

SpecBots == InitBots /\ [][NextBots]_vars

SpecAlerts == Init /\ [][NextAlerts]_vars

SpecAlertsOverlap == Init /\ [][NextAlertsOverlap]_vars

\* Cycles of the realtime script that overlap.
NextRealtimeOverlap == \E p \in Procs : RealtimeStep(p)

SpecRealtimeOverlap == Init /\ [][NextRealtimeOverlap]_vars

\* One ingestion process at a time, and the bot's route queries.
NextRoute ==
    \/ RealtimeStep(1)
    \/ get_route_departures

Next ==
    \/ NextRealtime
    \/ get_route_departures
    \/ NextAlertsOverlap
    \/ fetch_user_alerts

Spec == Init /\ [][Next]_vars

SpecRealtime == Init /\ [][NextRealtime]_vars

\* The ingestion process alone, which takes a step whenever it can.
NextIngest == RealtimeStep(1)

SpecRoute == Init /\ [][NextRoute]_vars

SpecIngest == Init /\ [][NextIngest]_vars /\ WF_vars(NextIngest)

-----------------------------------------------------------------------------
(* Properties of the realtime reconciliation *)

PairsOf(rows) == { <<rows[i].trip_id, rows[i].stop_id>> : i \in 1..Len(rows) }

TripIdsOf(rows) == { rows[i].trip_id : i \in 1..Len(rows) }

\* The index of the first row of `rows` that has the same values as
\* rows[i] in the columns `cols`.
FirstIndex(rows, cols, i) ==
    CHOOSE j \in 1..i :
        /\ \A c \in cols : rows[j][c] = rows[i][c]
        /\ \A k \in 1..(j - 1) : \E c \in cols : rows[k][c] # rows[i][c]

\* C1: when a cycle has completed, the (trip id, stop id) pairs stored are
\* exactly the pairs of the decoded batch and the trip ids stored are
\* exactly the trip ids of the batch, whatever was stored before.
C1_ReplaceAll ==
    rt_pc[1] = "done" =>
        /\ PairsOf(stop_time_update) = PairsOf(stop_time_updates[1])
        /\ TripIdsOf(trips_real_time) = TripIdsOf(trip_updates[1])

\* A completed cycle whose batch and prior state each hold a pair the
\* other lacks.
C1_Witness ==
    /\ rt_pc[1] = "done"
    /\ PairsOf(rt_prior.stus) \ PairsOf(stop_time_updates[1]) # {}
    /\ PairsOf(stop_time_updates[1]) \ PairsOf(rt_prior.stus) # {}
    /\ TripIdsOf(rt_prior.trips) \ TripIdsOf(trip_updates[1]) # {}

\* C2: when a cycle has completed, stop_time_update holds one row per
\* (trip id, stop id) pair, and it is the first occurrence of the pair in
\* the batch.
C2_OneRowPerPair ==
    rt_pc[1] = "done" =>
        /\ \A i, j \in 1..Len(stop_time_update) :
              /\ stop_time_update[i].trip_id = stop_time_update[j].trip_id
              /\ stop_time_update[i].stop_id = stop_time_update[j].stop_id
              => i = j
        /\ \A i \in 1..Len(stop_time_updates[1]) :
              \E j \in 1..Len(stop_time_update) :
                 stop_time_update[j] =
                    stop_time_updates[1][FirstIndex(stop_time_updates[1],
                                            {"trip_id", "stop_id"}, i)]

\* C3: when a cycle has completed, trips_real_time holds one row per trip
\* id of the batch, and it is the first occurrence of the trip id in the
\* batch.
C3_OneRowPerTrip ==
    rt_pc[1] = "done" =>
        /\ \A i, j \in 1..Len(trips_real_time) :
              trips_real_time[i].trip_id = trips_real_time[j].trip_id => i = j
        /\ \A i \in 1..Len(trip_updates[1]) :
              \E j \in 1..Len(trips_real_time) :
                 trips_real_time[j] =
                    trip_updates[1][FirstIndex(trip_updates[1], {"trip_id"}, i)]
        /\ Len(trips_real_time) = Cardinality(TripIdsOf(trip_updates[1]))

\* A completed cycle whose batch names one trip twice, on two routes.
C3_Witness ==
    /\ rt_pc[1] = "done"
    /\ \E i, j \in 1..Len(trip_updates[1]) :
          /\ i < j
          /\ trip_updates[1][i].trip_id = trip_updates[1][j].trip_id
          /\ trip_updates[1][i].route_id # trip_updates[1][j].route_id
          /\ trip_updates[1][i].start_datetime # trip_updates[1][j].start_datetime

\* The rows of the batch as the tables will hold them.
BatchTrips == insert_data(<<>>, "trips_real_time", trip_updates[1])

\* C4: a station-departure query that runs while process 1 replaces the
\* live state returns a row whenever the state before the cycle and the
\* batch both hold a future departure for the stop asked for.
C4_NeverEmpty ==
    /\ departures.kind = "station"
    /\ departures.during[1] # 0
    /\ departures.during[1] = rt_cycle[1]
    /\ station_departures(rt_prior.trips, rt_prior.stus,
                          departures.stop, departures.now) # <<>>
    /\ station_departures(BatchTrips, stop_time_updates[1],
                          departures.stop, departures.now) # <<>>
    => departures.rows # <<>>

\* C5: when a statement of the reconciliation has failed, the live state
\* is what it was before the reconciliation began.
C5_RolledBack ==
    rt_pc[1] = "crashed" => LiveState = rt_prior

\* C6: a completed cycle whose decoded batch is empty leaves both tables
\* empty.
C6_EmptyBatchClears ==
    /\ rt_pc[1] = "done"
    /\ trip_updates[1] = <<>>
    /\ stop_time_updates[1] = <<>>
    => trips_real_time = <<>> /\ stop_time_update = <<>>

\* A completed cycle in which no feed was fetched, over a state that held
\* trips and stop times.
C6_Witness ==
    /\ rt_pc[1] = "done"
    /\ feed_list[1] = <<>>
    /\ trip_updates[1] = <<>>
    /\ rt_prior.trips # <<>>
    /\ rt_prior.stus # <<>>

-----------------------------------------------------------------------------
(* Properties of the alert reconciliation *)

\* The rows of a table that belong to one alert.
RowsFor(table, alert_id) ==
    LET Mine(r) == r.alert_id = alert_id IN SelectSeq(table, Mine)

BatchIds(batch) == { batch[k].alert_id : k \in 1..Len(batch) }

OccursOnce(batch, k) ==
    \A m \in 1..Len(batch) : batch[m].alert_id = batch[k].alert_id => m = k

\* C7: when a run has completed, the periods and entities stored for an
\* alert that occurs once in the batch are exactly those of the batch.
C7_AlertReplaced ==
    al_pc[1] = "done" =>
        \A k \in 1..Len(al_alerts[1]) :
            OccursOnce(al_alerts[1], k) =>
                /\ RowsFor(active_periods, al_alerts[1][k].alert_id)
                      = active_period_rows(al_alerts[1][k])
                /\ RowsFor(informed_entities, al_alerts[1][k].alert_id)
                      = informed_entity_rows(al_alerts[1][k])

\* A completed run that updated an alert to no period at all, the alert
\* having had periods and other entities before.
C7_Witness ==
    /\ al_pc[1] = "done"
    /\ \E k \in 1..Len(al_alerts[1]) :
          /\ OccursOnce(al_alerts[1], k)
          /\ al_alerts[1][k].active_periods = <<>>
          /\ RowsFor(al_prior.active_periods, al_alerts[1][k].alert_id) # <<>>
          /\ RowsFor(al_prior.informed_entities, al_alerts[1][k].alert_id)
                \notin {<<>>, informed_entity_rows(al_alerts[1][k])}

\* C8: the rows of an alert that the batch of the current run does not
\* name are those stored when the run began.
C8_AbsentUntouched ==
    \A a \in AlertIds \ BatchIds(al_alerts[1]) :
        /\ RowsFor(alerts, a) = RowsFor(al_prior.alerts, a)
        /\ RowsFor(active_periods, a) = RowsFor(al_prior.active_periods, a)
        /\ RowsFor(informed_entities, a) = RowsFor(al_prior.informed_entities, a)

\* A completed run that changed the tables and left out an alert stored
\* with periods and entities.
C8_Witness ==
    /\ al_pc[1] = "done"
    /\ al_alerts[1] # <<>>
    /\ AlertState # al_prior
    /\ \E a \in AlertIds \ BatchIds(al_alerts[1]) :
          /\ RowsFor(alerts, a) # <<>>
          /\ RowsFor(active_periods, a) # <<>>
          /\ RowsFor(informed_entities, a) # <<>>

\* What fetch_user_alerts returns for one alert.
RowsOfAlert(rows, a) == { r \in rows : r.alert_id = a }

\* C9: what fetch_user_alerts returns, while process 1 updates the
\* tables, for an alert the batch names at most once is what it returns on
\* the state before the run or on the batch's record of that alert:
\* header, periods and entities of one update.
C9_OneVersion ==
    /\ user_alerts.during[1] # 0
    /\ user_alerts.during[1] = al_cycle[1]
    => \A a \in AlertIds :
          (\A k \in 1..Len(al_alerts[1]) :
              al_alerts[1][k].alert_id = a => OccursOnce(al_alerts[1], k))
          =>
          \/ RowsOfAlert(user_alerts.rows, a)
                = RowsOfAlert(user_alert_rows(al_prior.alerts,
                                 al_prior.active_periods,
                                 al_prior.informed_entities, subscriptions,
                                 user_alerts.user_id, user_alerts.now), a)
          \/ \E k \in 1..Len(al_alerts[1]) :
                /\ al_alerts[1][k].alert_id = a
                /\ RowsOfAlert(user_alerts.rows, a)
                      = user_alert_rows(
                           <<alert_row(al_alerts[1][k], al_cycle[1])>>,
                           active_period_rows(al_alerts[1][k]),
                           informed_entity_rows(al_alerts[1][k]),
                           subscriptions, user_alerts.user_id, user_alerts.now)

\* C10: the alerts table holds at most one row per alert identifier.
C10_OneRowPerAlert ==
    \A i, j \in 1..Len(alerts) : alerts[i].alert_id = alerts[j].alert_id => i = j

\* Two overlapping runs that both found the alert missing and have both
\* passed their insert.
C10_Witness ==
    /\ al_pc[1] = "delete_periods"
    /\ al_pc[2] = "delete_periods"
    /\ ~existing_alert[1]
    /\ ~existing_alert[2]
    /\ alert(1).alert_id = alert(2).alert_id
    /\ RowsFor(alerts, alert(1).alert_id) # <<>>

\* C11: when process 1 has upserted an alert, the alerts table holds a row
\* for its identifier whose header text, description text and last-updated
\* timestamp are those of the current run, whether the row was updated or
\* inserted.
C11_UpsertValues ==
    al_pc[1] = "delete_periods" =>
        \E i \in 1..Len(alerts) :
            /\ alerts[i].alert_id = alert(1).alert_id
            /\ alerts[i].header_text = alert(1).header_text
            /\ alerts[i].description_text = alert(1).description_text
            /\ alerts[i].last_updated = al_cycle[1]

-----------------------------------------------------------------------------
(* Properties of fetching and decoding *)

\* C12: a cycle leaves the fetch loop only when every feed group has been
\* tried, whatever way a fetch failed: a failed group is left out of
\* feed_list and the cycle goes on to decode and reconcile the others.
C12_FailureIsolated ==
    rt_pc[1] \notin {"idle", "fetch", "hung"} =>
        /\ rt_group[1] > Len(urls)
        /\ rt_pc[1] # "aborted"

\* C13: a cycle that is fetching eventually leaves the fetch phase, to
\* reconcile or to end.
C13_FetchTerminates ==
    (rt_pc[1] = "fetch") ~> (rt_pc[1] \notin {"fetch", "hung"})

\* The positions at which the decoded lists of the cycle are set.
Decoded == {"delete_trips", "delete_stu", "insert_trips", "insert_stu",
            "done", "crashed"}

\* The entities of a list of feeds, in the order the loops visit them.
RECURSIVE EntitiesOf(_)
EntitiesOf(feeds) ==
    IF feeds = <<>> THEN <<>>
    ELSE Head(feeds).entity \o EntitiesOf(Tail(feeds))

TripEntitiesOf(feeds) ==
    LET IsTrip(e) == e.has_trip_update IN SelectSeq(EntitiesOf(feeds), IsTrip)

\* A feed the decoding of which raises.
FeedRaises(feed) ==
    feed.is_none \/ \E j \in 1..Len(feed.entity) : EntityRaises(feed.entity[j])

\* C14: every trip-update entity of the fetched feeds that decodes without
\* an error is in the decoded lists, with its stop times, wherever in the
\* feeds an entity that fails to decode stands.
C14_OthersDecoded ==
    rt_pc[1] \in Decoded =>
        \A i \in 1..Len(feed_list[1]) :
            \A j \in 1..Len(feed_list[1][i].entity) :
                LET e == feed_list[1][i].entity[j]
                IN e.has_trip_update /\ ~EntityRaises(e) =>
                    /\ \E k \in 1..Len(trip_updates[1]) :
                          /\ trip_updates[1][k].trip_id = e.trip.trip_id
                          /\ trip_updates[1][k].route_id = e.trip.route_id
                    /\ \A m \in 1..Len(e.stop_time_update) :
                          \E k \in 1..Len(stop_time_updates[1]) :
                             /\ stop_time_updates[1][k].trip_id = e.trip.trip_id
                             /\ stop_time_updates[1][k].stop_id
                                   = e.stop_time_update[m].stop_id

\* C15: every decoded trip update and stop-time update comes from a feed
\* that was decoded without raising: a feed whose decoding raised has no
\* record in the lists.
C15_RaisingFeedEmpty ==
    rt_pc[1] \in Decoded =>
        /\ \A k \in 1..Len(trip_updates[1]) :
              \E i \in 1..Len(feed_list[1]) :
                 /\ ~FeedRaises(feed_list[1][i])
                 /\ \E j \in 1..Len(feed_list[1][i].entity) :
                       /\ feed_list[1][i].entity[j].trip.trip_id
                             = trip_updates[1][k].trip_id
                       /\ feed_list[1][i].entity[j].trip.route_id
                             = trip_updates[1][k].route_id
        /\ \A k \in 1..Len(stop_time_updates[1]) :
              \E i \in 1..Len(feed_list[1]) :
                 /\ ~FeedRaises(feed_list[1][i])
                 /\ \E j \in 1..Len(feed_list[1][i].entity) :
                       /\ feed_list[1][i].entity[j].trip.trip_id
                             = stop_time_updates[1][k].trip_id
                       /\ feed_list[1][i].entity[j].trip.route_id
                             \in { trip_updates[1][n].route_id :
                                     n \in 1..Len(trip_updates[1]) }

\* C16: the k-th decoded trip update is that of the k-th trip-update
\* entity of the feeds; its start is null when the entity lacks the start
\* date or the start time, and is made of the date and the time when it has
\* both.
C16_StartNeedsBoth ==
    rt_pc[1] \in Decoded =>
        \A k \in 1..Len(trip_updates[1]) :
            LET e == TripEntitiesOf(feed_list[1])[k]
                row == trip_updates[1][k]
            IN /\ row.trip_id = e.trip.trip_id
               /\ e.trip.start_date = <<>> \/ e.trip.start_time = <<>>
                     => row.start_datetime = <<>>
               /\ e.trip.start_date # <<>> /\ e.trip.start_time # <<>>
                     => /\ row.start_datetime # <<>>
                        /\ row.start_datetime[1] = e.trip.start_date
                        /\ row.start_datetime[2] = e.trip.start_time

\* A decoded batch with a trip that has a start date and no start time, a
\* trip that has a start time and no start date, and a trip that has both.
C16_Witness ==
    /\ rt_pc[1] \in Decoded
    /\ \E k1, k2, k3 \in 1..Len(trip_updates[1]) :
          LET ents == TripEntitiesOf(feed_list[1])
          IN /\ ents[k1].trip.start_date # <<>> /\ ents[k1].trip.start_time = <<>>
             /\ trip_updates[1][k1].start_datetime = <<>>
             /\ ents[k2].trip.start_date = <<>> /\ ents[k2].trip.start_time # <<>>
             /\ trip_updates[1][k2].start_datetime = <<>>
             /\ ents[k3].trip.start_date # <<>> /\ ents[k3].trip.start_time # <<>>
             /\ trip_updates[1][k3].start_datetime # <<>>

-----------------------------------------------------------------------------
(* Properties of the departure queries *)

\* The stop-time updates of the live state that depart from a station
\* after `now` on a trip of route r.
FutureAt(station_id, r, now) ==
    { j \in 1..Len(stop_time_update) :
        /\ stop_time_update[j].stop_id = station_id
        /\ stop_time_update[j].departure_time # NULL
        /\ stop_time_update[j].departure_time > now
        /\ \E i \in 1..Len(trips_real_time) :
              /\ trips_real_time[i].trip_id = stop_time_update[j].trip_id
              /\ trips_real_time[i].route_id = r }

FutureTimes(station_id, r, now) ==
    { stop_time_update[j].departure_time : j \in FutureAt(station_id, r, now) }

\* The place of a route identifier in the ascending order of identifiers.
RouteRank(r) == CHOOSE i \in 1..Len(RouteOrder) : RouteOrder[i] = r

\* Whether `departures` is the answer to its query on the current state.
AnswerIsCurrent ==
    \/ /\ departures.kind = "station"
       /\ departures.rows = station_departures(trips_real_time,
                                stop_time_update, departures.stop,
                                departures.now)
    \/ /\ departures.kind = "route"
       /\ departures.rows = route_departures(trips_real_time,
                                stop_time_update, departures.stop,
                                departures.route, departures.now)

\* C17: on every live state, for every station and query time,
\* get_station_departures returns its rows in ascending order of route
\* identifier, one row at most per route, a row for every route that has a
\* future departure at the station and for no other, and the row of a route
\* carries the earliest future departure of the trips of that route.
C17_EarliestPerRoute ==
    \A station_id \in StopIds, now \in QueryTimes :
        LET rows == station_departures(trips_real_time, stop_time_update,
                                       station_id, now)
        IN /\ \A i, j \in 1..Len(rows) :
                 i < j => RouteRank(rows[i].route_id) < RouteRank(rows[j].route_id)
           /\ \A r \in RouteIds :
                 FutureTimes(station_id, r, now) # {} =>
                    \E i \in 1..Len(rows) :
                       /\ rows[i].route_id = r
                       /\ rows[i].departure_time \in FutureTimes(station_id, r, now)
                       /\ \A d \in FutureTimes(station_id, r, now) :
                             rows[i].departure_time <= d
           /\ \A i \in 1..Len(rows) :
                 FutureTimes(station_id, rows[i].route_id, now) # {}

\* A station query answered on the current state with a row for a route
\* that two trips serve at the station, at different future times.
C17_Witness ==
    /\ departures.kind = "station"
    /\ AnswerIsCurrent
    /\ \E k \in 1..Len(departures.rows) :
          \E j1, j2 \in FutureAt(departures.stop, departures.rows[k].route_id,
                                 departures.now) :
             /\ stop_time_update[j1].trip_id # stop_time_update[j2].trip_id
             /\ stop_time_update[j1].departure_time
                   < stop_time_update[j2].departure_time

\* C18: on every live state, for every station, route and query time, the
\* departure time of every row of get_station_departures and of
\* get_route_departures is not null and is strictly after the query time.
C18_StrictlyFuture ==
    \A station_id \in StopIds, now \in QueryTimes :
        /\ LET rows == station_departures(trips_real_time, stop_time_update,
                                          station_id, now)
           IN \A k \in 1..Len(rows) :
                 rows[k].departure_time # NULL /\ rows[k].departure_time > now
        /\ \A route_name \in RouteIds :
              LET rows == route_departures(trips_real_time, stop_time_update,
                                           station_id, route_name, now)
              IN \A k \in 1..Len(rows) :
                    rows[k].departure_time # NULL /\ rows[k].departure_time > now

\* A route query answered with rows on the current state, which holds, for
\* the station and the route asked for, a stop-time update that departs
\* exactly at the query time and one without a departure time.
C18_Witness ==
    /\ departures.kind = "route"
    /\ AnswerIsCurrent
    /\ departures.rows # <<>>
    /\ \E j1, j2 \in 1..Len(stop_time_update) :
          /\ stop_time_update[j1].stop_id = departures.stop
          /\ stop_time_update[j2].stop_id = departures.stop
          /\ stop_time_update[j1].departure_time = departures.now
          /\ stop_time_update[j2].departure_time = NULL
          /\ \A j \in {j1, j2} :
                \E i \in 1..Len(trips_real_time) :
                   /\ trips_real_time[i].trip_id = stop_time_update[j].trip_id
                   /\ trips_real_time[i].route_id = departures.route

\* C19: on every live state, for every station, route and query time,
\* get_route_departures returns three rows, or all the future departures
\* of the route at the station when they are fewer; every row is of the
\* route asked for and is a future departure of that route at the station;
\* the rows are in ascending order of departure time, and the departures
\* earlier than the k-th row are fewer than k.
C19_ThreeEarliest ==
    \A station_id \in StopIds, route_name \in RouteIds, now \in QueryTimes :
        LET rows == route_departures(trips_real_time, stop_time_update,
                                     station_id, route_name, now)
            F == FutureAt(station_id, route_name, now)
        IN /\ Len(rows) <= 3
           /\ Len(rows) = IF Cardinality(F) < 3 THEN Cardinality(F) ELSE 3
           /\ \A k \in 1..Len(rows) :
                 /\ rows[k].route_id = route_name
                 /\ rows[k].departure_time \in FutureTimes(station_id, route_name, now)
                 /\ Cardinality({ j \in F : stop_time_update[j].departure_time
                                              < rows[k].departure_time }) < k
           /\ \A k, l \in 1..Len(rows) :
                 k < l => rows[k].departure_time <= rows[l].departure_time

\* A route query answered on the current state with three rows at three
\* different times, the route having more than three future departures at
\* the station.
C19_Witness ==
    /\ departures.kind = "route"
    /\ AnswerIsCurrent
    /\ Len(departures.rows) = 3
    /\ departures.rows[1].departure_time < departures.rows[2].departure_time
    /\ departures.rows[2].departure_time < departures.rows[3].departure_time
    /\ Cardinality(FutureAt(departures.stop, departures.route, departures.now)) > 3

-----------------------------------------------------------------------------
(* Properties of the alert query *)

\* The query times the classification is checked at: before, at and after
\* every bound of the periods of the feeds.
Clock == 0..4

\* The status the period of a row has at `now`.
StatusIsRight(r, now) ==
    /\ r.alert_status \in {"upcoming", "past", "active"}
    /\ r.alert_status = "upcoming" <=> (r.start_time # NULL /\ r.start_time > now)
    /\ r.alert_status = "past" <=>
          /\ ~(r.start_time # NULL /\ r.start_time > now)
          /\ r.end_time # NULL /\ r.end_time < now
    /\ (r.start_time = NULL \/ r.start_time <= now)
          /\ (r.end_time = NULL \/ r.end_time >= now)
          => r.alert_status = "active"

\* C20: every row fetch_user_alerts has returned, and every row it returns
\* on the current tables at any query time, has the status of its period
\* at the query time: upcoming when the start is after it, else past when
\* the end is before it, else active; a bound that is null or equal to the
\* query time decides nothing.
C20_StatusOfPeriod ==
    /\ \A r \in user_alerts.rows : StatusIsRight(r, user_alerts.now)
    /\ \A user_id \in UserIds, now \in Clock :
          \A r \in user_alert_rows(alerts, active_periods, informed_entities,
                                   subscriptions, user_id, now) :
             StatusIsRight(r, now)

\* An answer of fetch_user_alerts with a row of each status, one of them
\* with a null start, on tables for which a query at another time returns
\* an active row whose start is the query time and whose end is null, and
\* an active row whose end is the query time.
C20_Witness ==
    /\ user_alerts.user_id \in UserIds
    /\ \A st \in {"upcoming", "past", "active"} :
          \E r \in user_alerts.rows : r.alert_status = st
    /\ \E r \in user_alerts.rows : r.start_time = NULL
    /\ \E now \in Clock :
          LET rows == user_alert_rows(alerts, active_periods, informed_entities,
                                      subscriptions, user_alerts.user_id, now)
          IN /\ \E r \in rows : /\ r.start_time = now
                                 /\ r.end_time = NULL
                                 /\ r.alert_status = "active"
             /\ \E r \in rows : /\ r.end_time = now
                                 /\ r.alert_status = "active"

\* C21 as stated: within one entity no `upcoming` row comes before an
\* `active` or a `past` row.
C21_UpcomingLast ==
    \A i, j \in 1..Len(user_alerts.list) :
        /\ i < j
        /\ user_alerts.list[i].entity_id = user_alerts.list[j].entity_id
        /\ user_alerts.list[i].alert_status = "upcoming"
        => user_alerts.list[j].alert_status = "upcoming"

\* C21, amended: the rows fetch_user_alerts returns are in ascending order
\* of entity identifier; within one entity the `upcoming` rows come first,
\* then the `past` rows, then the `active` rows; within one entity and
\* status the rows are in ascending order of period start, a null start
\* last.
C21_OrderedDescending ==
    \A i, j \in 1..Len(user_alerts.list) :
        i < j =>
           LET r1 == user_alerts.list[i]
               r2 == user_alerts.list[j]
           IN /\ PlaceIn(EntityOrder, r1.entity_id)
                    <= PlaceIn(EntityOrder, r2.entity_id)
              /\ r1.entity_id = r2.entity_id =>
                    /\ r1.alert_status = "active" => r2.alert_status = "active"
                    /\ r1.alert_status = "past" => r2.alert_status # "upcoming"
              /\ r1.entity_id = r2.entity_id
                    /\ r1.alert_status = r2.alert_status =>
                    \/ r2.start_time = NULL
                    \/ r1.start_time # NULL /\ r1.start_time <= r2.start_time

\* An answer with an `upcoming`, a `past` and an `active` row of one
\* entity, and with rows of two entities.
C21_Witness ==
    /\ \E i, j, k \in 1..Len(user_alerts.list) :
          /\ user_alerts.list[i].entity_id = user_alerts.list[j].entity_id
          /\ user_alerts.list[j].entity_id = user_alerts.list[k].entity_id
          /\ user_alerts.list[i].alert_status = "upcoming"
          /\ user_alerts.list[j].alert_status = "past"
          /\ user_alerts.list[k].alert_status = "active"
    /\ \E i, j \in 1..Len(user_alerts.list) :
          user_alerts.list[i].entity_id # user_alerts.list[j].entity_id

\* C25: a run that has ended without a decoded alert, its fetch having
\* failed (the fetch returned None, or raised), has left alerts,
\* active_periods and informed_entities as they were when it began; a feed
\* that is None decodes to no alert.
C25_FailedFetchChangesNothing ==
    /\ process_gtfs_feed_data(<<NoneFeed>>).alerts = <<>>
    /\ al_pc[1] \in {"done", "failed"} /\ al_alerts[1] = <<>>
          => AlertState = al_prior

\* A run that ended at a fetch that raised, over tables that held alerts
\* with periods and entities.
C25_Witness ==
    /\ al_pc[1] = "failed"
    /\ al_alerts[1] = <<>>
    /\ al_prior.alerts # <<>>
    /\ al_prior.active_periods # <<>>
    /\ al_prior.informed_entities # <<>>
    /\ AlertState = al_prior

\* The place of the last occurrence of an alert identifier in a batch.
LastIndex(batch, alert_id) ==
    CHOOSE k \in 1..Len(batch) :
        /\ batch[k].alert_id = alert_id
        /\ \A m \in (k + 1)..Len(batch) : batch[m].alert_id # alert_id

\* C26: when a run has completed, every alert of its batch has one row in
\* alerts, with the header and description of its last occurrence in the
\* batch, and the periods and entities stored for it are those of that
\* last occurrence.
C26_LastWins ==
    al_pc[1] = "done" =>
        \A a \in BatchIds(al_alerts[1]) :
            LET last == al_alerts[1][LastIndex(al_alerts[1], a)]
            IN /\ Len(RowsFor(alerts, a)) = 1
               /\ RowsFor(alerts, a)[1].header_text = last.header_text
               /\ RowsFor(alerts, a)[1].description_text = last.description_text
               /\ RowsFor(active_periods, a) = active_period_rows(last)
               /\ RowsFor(informed_entities, a) = informed_entity_rows(last)

\* A completed run whose batch names an alert twice, with different
\* header, description, periods and entities.
C26_Witness ==
    /\ al_pc[1] = "done"
    /\ \E k, m \in 1..Len(al_alerts[1]) :
          /\ k < m
          /\ al_alerts[1][k].alert_id = al_alerts[1][m].alert_id
          /\ al_alerts[1][k].header_text # al_alerts[1][m].header_text
          /\ al_alerts[1][k].description_text # al_alerts[1][m].description_text
          /\ al_alerts[1][k].active_periods # al_alerts[1][m].active_periods
          /\ al_alerts[1][k].informed_entities # al_alerts[1][m].informed_entities

\* The stop and route identifiers a user has subscribed to.
SubscribedIds(user_id) ==
    LET Mine == { m \in 1..Len(subscriptions) :
                    subscriptions[m].user_id = user_id }
    IN ({ subscriptions[k].stop_id : k \in Mine }
         \cup { subscriptions[k].route_id : k \in Mine }) \ {"NULL"}

\* C27: every row that fetch_user_alerts returns has an entity_id that is
\* the stop id or the route id of one of the user's subscriptions.
C27_EntityIsSubscribed ==
    \A k \in 1..Len(user_alerts.list) :
        user_alerts.list[k].entity_id \in SubscribedIds(user_alerts.user_id)

\* Whether an informed entity of the stored alert matches a subscription
\* of the user.
EntityMatches(alert_id, user_id) ==
    \E e \in 1..Len(informed_entities), k \in 1..Len(subscriptions) :
        /\ informed_entities[e].alert_id = alert_id
        /\ subscriptions[k].user_id = user_id
        /\ \/ /\ subscriptions[k].route_id # "NULL"
              /\ subscriptions[k].route_id = informed_entities[e].route_id
           \/ /\ subscriptions[k].stop_id # "NULL"
              /\ subscriptions[k].stop_id = informed_entities[e].stop_id

\* The alerts that are stored without a period or without an entity.
Incomplete ==
    { alerts[k].alert_id : k \in { m \in 1..Len(alerts) :
          \/ RowsFor(active_periods, alerts[m].alert_id) = <<>>
          \/ RowsFor(informed_entities, alerts[m].alert_id) = <<>> } }

\* C28: at any time of asking, fetch_user_alerts returns no row of an
\* alert that is stored with zero active periods or with zero informed
\* entities, whatever the user's subscriptions match.
C28_IncompleteNotReturned ==
    /\ \A user_id \in UserIds, now \in Clock :
          /\ \A t \in user_alert_join(alerts, active_periods,
                          informed_entities, subscriptions, user_id) :
                user_alert_row(alerts, active_periods, informed_entities,
                               t, now).alert_id \notin Incomplete
          /\ \A r \in user_alert_rows(alerts, active_periods,
                          informed_entities, subscriptions, user_id, now) :
                r.alert_id \notin Incomplete
    /\ user_alerts.user_id \in UserIds
       /\ user_alerts.list \in user_alert_lists(alerts, active_periods,
              informed_entities, subscriptions, user_alerts.user_id,
              user_alerts.now)
       => \A k \in 1..Len(user_alerts.list) :
              user_alerts.list[k].alert_id \notin Incomplete

\* A query answered on a state in which one alert has a matching entity
\* and no period, and another alert has periods and no entity.
C28_Witness ==
    /\ user_alerts.user_id \in UserIds
    /\ user_alerts.list \in user_alert_lists(alerts, active_periods,
           informed_entities, subscriptions, user_alerts.user_id,
           user_alerts.now)
    /\ \E a \in Incomplete :
          /\ RowsFor(active_periods, a) = <<>>
          /\ EntityMatches(a, user_alerts.user_id)
    /\ \E a \in Incomplete :
          /\ RowsFor(active_periods, a) # <<>>
          /\ RowsFor(informed_entities, a) = <<>>

\* The positions of a cycle from before its first statement to after its
\* last one, a failed statement included.
InCycle == {"delete_trips", "delete_stu", "insert_trips", "insert_stu",
            "done", "crashed"}

\* The answers a station query may give during the cycle of process 1:
\* that of the state before the cycle, none, or that of the whole batch.
WholeAnswers(station_id, now) ==
    { station_departures(rt_prior.trips, rt_prior.stus, station_id, now),
      <<>>,
      station_departures(BatchTrips, stop_time_updates[1], station_id, now) }

\* C23: with one ingestion process, a station-departure query at any point
\* of a reconciliation returns the result of the state before the cycle,
\* or nothing, or the result of the complete new batch.
C23_PriorEmptyOrNew ==
    /\ rt_pc[1] \in InCycle =>
          \A station_id \in StopIds, now \in QueryTimes :
              station_departures(trips_real_time, stop_time_update,
                                 station_id, now)
                 \in WholeAnswers(station_id, now)
    /\ /\ departures.kind = "station"
       /\ departures.during[1] # 0
       /\ departures.during[1] = rt_cycle[1]
       => departures.rows \in WholeAnswers(departures.stop, departures.now)

\* A query answered between the insert of the new trips and the insert of
\* their stop times, when the state before the cycle and the batch give
\* two different answers that are not empty.
C23_Witness ==
    /\ rt_pc[1] = "insert_stu"
    /\ trips_real_time # <<>>
    /\ departures.kind = "station"
    /\ departures.during[1] = rt_cycle[1]
    /\ departures.rows = station_departures(trips_real_time, stop_time_update,
                                            departures.stop, departures.now)
    /\ station_departures(rt_prior.trips, rt_prior.stus,
                          departures.stop, departures.now) # <<>>
    /\ station_departures(BatchTrips, stop_time_updates[1],
                          departures.stop, departures.now) # <<>>
    /\ station_departures(rt_prior.trips, rt_prior.stus,
                          departures.stop, departures.now)
          # station_departures(BatchTrips, stop_time_updates[1],
                               departures.stop, departures.now)

\* The live state that the batch of one process makes on its own.
BatchState(p) ==
    [trips |-> insert_data(<<>>, "trips_real_time", trip_updates[p]),
     stus |-> insert_data(<<>>, "stop_time_update", stop_time_updates[p])]

\* C24: when two cycles that overlapped have both completed, the live
\* state is the batch of one of them.
C24_OneBatchWins ==
    /\ rt_pc[1] = "done"
    /\ rt_pc[2] = "done"
    => \E p \in Procs : LiveState = BatchState(p)

-----------------------------------------------------------------------------
(* Properties of the bot's handlers *)

\* C22: every subscriptions row has exactly one of stop_id and route_id
\* set.
C22_ExactlyOneTarget ==
    \A k \in 1..Len(subscriptions) :
        (subscriptions[k].stop_id = "NULL") # (subscriptions[k].route_id = "NULL")

\* The rows of users with the username: how many.
UserCount(user) == Len(UserRecord(user))

\* C29: whatever the interleaving of get_or_create_user_id calls of two
\* bot processes, users holds at most one row per username, no call
\* fails to find the row of its username (IndexError at the second
\* SELECT), and a call that has returned has returned the user_id of the
\* one row of its username.
C29_OneUserRow ==
    /\ \A user \in Usernames : UserCount(user) <= 1
    /\ \A h \in Handlers :
          /\ bot_local[h].raised # "IndexError"
          /\ bot_local[h].user_id # 0 =>
                /\ UserCount(bot_local[h].user) = 1
                /\ UserRecord(bot_local[h].user)[1].user_id
                      = bot_local[h].user_id

\* Two calls for one username, of two processes, have both found no row
\* and both inserted, and both have returned.
C29_Witness ==
    /\ bot_proc[1] # bot_proc[2]
    /\ bot_local[1].user = bot_local[2].user
    /\ bot_local[1].user_id # 0
    /\ bot_local[2].user_id = bot_local[1].user_id
    /\ users_user_id_seq > Len(users)

\* The rows of subscriptions a subscribe handler would find.
Matching(l) == SelectSeq(subscriptions, LAMBDA r : IsSubscription(r, l))

\* C30: within one bot process there is at most one subscriptions row
\* per user and stop id, and per user and route id; a subscribe handler
\* reaches its insert only when the user has no such subscription.
C30_OneRowPerTarget ==
    /\ \A k, m \in 1..Len(subscriptions) :
          /\ k # m
          /\ subscriptions[k].user_id = subscriptions[m].user_id
          => /\ subscriptions[k].stop_id = "NULL"
                \/ subscriptions[k].stop_id # subscriptions[m].stop_id
             /\ subscriptions[k].route_id = "NULL"
                \/ subscriptions[k].route_id # subscriptions[m].route_id
    /\ \A h \in Handlers :
          bot_pc[h] = "insert_subscription" => Matching(bot_local[h]) = <<>>

\* A second subscribe to the same station has been answered 'already
\* subscribed' while another handler of the process has its menu open,
\* and the user's row for the stop is there once.
C30_Witness ==
    /\ bot_proc[1] = bot_proc[2]
    /\ \E h \in Handlers :
          /\ bot_local[h].response = "already subscribed"
          /\ bot_local[h].stop_id # "NULL"
          /\ Len(Matching(bot_local[h])) = 1
    /\ \E h \in Handlers : bot_pc[h] = "menu"

====
